---------------------------- MODULE Spec2Model ----------------------------
(***************************************************************************)
(* A model of the OpenABE core: the ciphertext container                   *)
(* (utils/zciphertext.cpp), the policy tree and its canonicalization       *)
(* (utils/zpolicy.cpp), the scalar type ZP (zml/zelement_bp.cpp,           *)
(* zml/zelement.c, zml/zelement_mcl.c), the standard G1, G2 and GT         *)
(* serializers (zml/zstandard_serialization.cpp), random elements and      *)
(* pairings (zml/zpairing.cpp), arithmetic on elements of two groups, the  *)
(* legacy decoders, the library's process-wide curve selector, the         *)
(* serializer's format and field-size tables with its field element        *)
(* conversion, and the WebAssembly binding of encryption                   *)
(* (wasm-bindings/wasm-bindings.cpp).                                      *)
(*                                                                         *)
(* Each component has its own specification (SpecCt, SpecPolicy, SpecZP,   *)
(* SpecG1, SpecG2, SpecGT, SpecRnd, SpecPairing, SpecMix, SpecDecode,      *)
(* SpecSelector, SpecTables, SpecWasm) over the component's variable; the  *)
(* variables of the other components stay at Idle.                         *)
(***************************************************************************)
EXTENDS Integers, Sequences, FiniteSets, TLC

VARIABLES
  build,   \* which component runs and its compile-time configuration: [comp, backend, wasm]
  ct,      \* container component: source container, bytes on the wire, target
  pol,     \* policy component
  zp,      \* scalar (Fr / ZP) component
  g1,      \* G1 serialization component
  g2,      \* G2 serialization component
  gt,      \* GT serialization component
  rnd,     \* random element component
  pr,      \* pairing component
  mx,      \* mixed context component
  dec,     \* legacy decoding component
  cs,      \* curve selector component
  tb,      \* serializer tables and field element conversion component
  wb       \* WebAssembly binding component

vars == <<build, ct, pol, zp, g1, g2, gt, rnd, pr, mx, dec, cs, tb, wb>>

Idle == "idle"

(***************************************************************************)
(* Byte strings (OpenABEByteString): sequences of 0..255.                  *)
(***************************************************************************)
Byte == 0..255

\* n as 4 big-endian bytes
BE32(n) ==
  << (n \div 16777216) % 256, (n \div 65536) % 256, (n \div 256) % 256, n % 256 >>

\* OpenABEByteString::smartPack: append the 4-byte big-endian length, then the bytes
smartPack(out, x) == out \o BE32(Len(x)) \o x

\* OpenABEByteString::getSubset(from, len), 0-based
getSubset(b, from, len) == SubSeq(b, from + 1, from + len)

\* OpenABEByteString::smartUnpack(&index): read a 4-byte big-endian length at
\* index, then that many bytes; the empty string when the input is too short.
smartUnpack(input, index) ==
  IF Len(input) >= index + 4
    THEN LET n == input[index + 1] * 16777216 + input[index + 2] * 65536
                  + input[index + 3] * 256 + input[index + 4]
         IN IF Len(input) >= index + 4 + n
              THEN [buf |-> getSubset(input, index + 4, n), index |-> index + 4 + n]
              ELSE [buf |-> << >>, index |-> index + 4]
    ELSE [buf |-> << >>, index |-> index]

(***************************************************************************)
(* Constants of utils/zconstants.h                                         *)
(***************************************************************************)
OpenABE_LIBRARY_VERSION == 170
UID_LEN == 16

OpenABE_NONE_ID == 0
OpenABE_NIST_P256_ID == 50
OpenABE_NIST_P384_ID == 90
OpenABE_NIST_P521_ID == 183
OpenABE_BN_P254_ID == 111
OpenABE_BN_P256_ID == 115
OpenABE_BN_P382_ID == 228
OpenABE_BN_P638_ID == 141
OpenABE_BLS12_P381_ID == 162

CurveIDs ==
  { OpenABE_NIST_P256_ID, OpenABE_NIST_P384_ID, OpenABE_NIST_P521_ID,
    OpenABE_BN_P254_ID, OpenABE_BN_P256_ID, OpenABE_BN_P382_ID,
    OpenABE_BN_P638_ID, OpenABE_BLS12_P381_ID }

OpenABE_SCHEME_NONE == 0
\* the scheme enumeration is declared outside the sources at hand; the container
\* stores the id uninterpreted: two distinct valid ids stand for it
SchemeIDs == { 101, 201 }

\* OpenABE_getCurveID / OpenABE_getSchemeID: a valid wire id is kept, anything
\* else becomes NONE
OpenABE_getCurveID(b) == IF b \in CurveIDs THEN b ELSE OpenABE_NONE_ID
OpenABE_getSchemeID(b) == IF b \in SchemeIDs THEN b ELSE OpenABE_SCHEME_NONE

(***************************************************************************)
(* Errors: what a call hands back to its caller.  "none" is a normal       *)
(* return; anything else is the OpenABE_ERROR thrown.                      *)
(***************************************************************************)
NoError == "none"

(***************************************************************************)
(* Ciphertext container (OpenABECiphertext)                                *)
(***************************************************************************)
NullGroup == 0

\* bounds of the container component
MaxUidExtra == 1      \* external UIDs have up to UID_LEN + MaxUidExtra bytes
MaxSeed == 2          \* RNG states a header may be drawn from
MaxBodyLen == 2       \* bytes of an abstract serialized body
MaxLoads == 2         \* loadFromBytes calls per behaviour

\* an external UID of n bytes, recognizable by its tag t
UidOf(n, t) == [i \in 1..n |-> (t * 16 + i) % 256]
ExternUids ==
  { UidOf(n, t) : n \in {0, UID_LEN - 1} \cup (UID_LEN..(UID_LEN + MaxUidExtra)),
                  t \in {3, 4} }

\* OpenABERNG::getRandomBytes(&uid, UID_LEN) for an RNG in state s
RandomBytes(s, n) == [i \in 1..n |-> (s * 59 + i * 7) % 256]
NullRng == 0

Bodies == { [i \in 1..n |-> 176 + i] : n \in 0..MaxBodyLen }

\* OpenABECiphertext::OpenABECiphertext()
NewCiphertext ==
  [ libraryVersion |-> OpenABE_LIBRARY_VERSION,
    curveID        |-> OpenABE_NONE_ID,
    algorithmID    |-> OpenABE_SCHEME_NONE,
    uid            |-> [i \in 1..UID_LEN |-> 0],
    uid_set_extern |-> FALSE,
    group          |-> NullGroup,
    body           |-> << >> ]

\* OpenABECiphertext::OpenABECiphertext(const OpenABEByteString &uid)
NewCiphertextUid(uid) ==
  IF Len(uid) >= UID_LEN
    THEN [NewCiphertext EXCEPT !.uid = uid, !.uid_set_extern = TRUE]
    ELSE NewCiphertext

\* OpenABECiphertext::getHeader
getHeader(c) == << c.libraryVersion, c.curveID, c.algorithmID >> \o c.uid

\* OpenABEContainer::serialize / deserialize: the body is the byte string of the
\* container's elements
serialize(c) == c.body
deserialize(c, bytes) == [c EXCEPT !.body = bytes]

\* OpenABECiphertext::exportToBytes
exportToBytes(c) == smartPack(smartPack(<< >>, getHeader(c)), serialize(c))

\* OpenABECiphertext::loadFromBytes: the container after the call and what the
\* caller gets (the function is void and reports every rejection on stderr only)
loadFromBytes(c, input) ==
  LET hdrLen == 3 + UID_LEN
      h      == smartUnpack(input, 0)
      hdr    == h.buf
      b      == smartUnpack(input, h.index)
  IN IF Len(input) < hdrLen
       THEN [c |-> c, thrown |-> NoError, diag |-> "invalid input"]
     ELSE IF Len(hdr) # hdrLen
       THEN [c |-> c, thrown |-> NoError, diag |-> "invalid ciphertext header"]
     ELSE IF ~(hdr[1] <= OpenABE_LIBRARY_VERSION)
       THEN [c |-> c, thrown |-> NoError, diag |-> "InvalidLibVersion"]
     ELSE IF ~(Len(b.buf) > 0)
       THEN [c |-> [c EXCEPT !.libraryVersion = hdr[1]],
             thrown |-> NoError, diag |-> "InvalidCiphertextBody"]
     ELSE LET curve == OpenABE_getCurveID(hdr[2])
              c1 == [c EXCEPT !.libraryVersion = hdr[1],
                              !.curveID = curve,
                              !.algorithmID = OpenABE_getSchemeID(hdr[3]),
                              !.uid = getSubset(hdr, 3, UID_LEN),
                              !.group = IF c.group = NullGroup /\ curve # OpenABE_NONE_ID
                                          THEN curve ELSE c.group]
          IN [c |-> deserialize(c1, b.buf), thrown |-> NoError, diag |-> "loaded"]

\* OpenABECiphertext::setHeader(curveID, scheme_type, rng): the container after
\* the call and what the caller gets.  ASSERT_NOTNULL_VOID throws InvalidInput,
\* and only prints and returns in a wasm build.
setHeaderRng(c, curve, scheme, rng, wasm) ==
  LET c1 == [c EXCEPT !.curveID = curve, !.algorithmID = scheme,
                      !.libraryVersion = OpenABE_LIBRARY_VERSION]
  IN IF c.uid_set_extern
       THEN [c |-> c1, thrown |-> NoError]
     ELSE IF rng = NullRng
       THEN [c |-> c1, thrown |-> IF wasm THEN NoError ELSE "InvalidInput"]
     ELSE [c |-> [c1 EXCEPT !.uid = RandomBytes(rng, UID_LEN)], thrown |-> NoError]

\* OpenABECiphertext::setHeader(curveID, scheme_type, uid)
setHeaderUid(c, curve, scheme, uid) ==
  [c EXCEPT !.curveID = curve, !.algorithmID = scheme,
            !.libraryVersion = OpenABE_LIBRARY_VERSION, !.uid = uid]

NoLoad == [n |-> 0, thrown |-> NoError, diag |-> "", input |-> << >>, before |-> NewCiphertext,
           fresh |-> TRUE]

\* the container component after construction: a source container built by one
\* of the constructors, nothing on the wire, a fresh target container; supplied
\* is the UID the caller last handed to the source container, if any
CtInit ==
  /\ build \in [comp : {"ct"}, backend : {"relic"}, wasm : BOOLEAN]
  /\ \E c \in {NewCiphertext} \cup { NewCiphertextUid(u) : u \in ExternUids } :
       ct = [src |-> c, wire |-> << >>, from |-> "none", sent |-> c,
             dst |-> NewCiphertext, load |-> NoLoad, setThrown |-> NoError,
             supplied |-> IF c.uid_set_extern THEN c.uid ELSE << >>]
  /\ pol = Idle /\ zp = Idle /\ g1 = Idle /\ g2 = Idle /\ gt = Idle /\ rnd = Idle /\ pr = Idle /\ mx = Idle /\ dec = Idle /\ cs = Idle /\ tb = Idle /\ wb = Idle

CtSetHeaderRng ==
  \E curve \in {OpenABE_BN_P254_ID, OpenABE_BLS12_P381_ID}, scheme \in SchemeIDs,
     rng \in {NullRng} \cup (1..MaxSeed) :
    LET r == setHeaderRng(ct.src, curve, scheme, rng, build.wasm)
    IN /\ ct.from = "none"
       /\ ct' = [ct EXCEPT !.src = r.c, !.setThrown = r.thrown]
       /\ UNCHANGED <<build, pol, zp, g1, g2, gt, rnd, pr, mx, dec, cs, tb, wb>>

CtSetHeaderUid ==
  \E curve \in {OpenABE_BN_P254_ID, OpenABE_BLS12_P381_ID}, scheme \in SchemeIDs,
     uid \in ExternUids :
    /\ ct.from = "none"
    /\ ct' = [ct EXCEPT !.src = setHeaderUid(ct.src, curve, scheme, uid),
                        !.setThrown = NoError, !.supplied = uid]
    /\ UNCHANGED <<build, pol, zp, g1, g2, gt, rnd, pr, mx, dec, cs, tb, wb>>

\* the scheme driver fills the container with elements
CtSetBody ==
  \E b \in Bodies :
    /\ ct.from = "none"
    /\ ct.src.body # b
    /\ ct' = [ct EXCEPT !.src = [ct.src EXCEPT !.body = b]]
    /\ UNCHANGED <<build, pol, zp, g1, g2, gt, rnd, pr, mx, dec, cs, tb, wb>>

CtExport ==
  /\ ct.from = "none"
  /\ ct' = [ct EXCEPT !.wire = exportToBytes(ct.src), !.from = "export", !.sent = ct.src]
  /\ UNCHANGED <<build, pol, zp, g1, g2, gt, rnd, pr, mx, dec, cs, tb, wb>>

\* bytes from outside the process: a well-formed frame with any version byte,
\* possibly cut short
CtReceive ==
  \E ver \in {OpenABE_LIBRARY_VERSION - 1, OpenABE_LIBRARY_VERSION,
              OpenABE_LIBRARY_VERSION + 1, 255},
     curve \in {OpenABE_BN_P254_ID, 7}, uid \in ExternUids, b \in Bodies, cut \in {0, 1, 30} :
    LET frame == smartPack(smartPack(<< >>, << ver, curve, 101 >> \o uid), b)
        keep  == IF Len(frame) > cut THEN Len(frame) - cut ELSE 0
    IN /\ ct.from = "none"
       /\ ct.src = NewCiphertext
       /\ ct' = [ct EXCEPT !.wire = SubSeq(frame, 1, keep), !.from = "outside"]
       /\ UNCHANGED <<build, pol, zp, g1, g2, gt, rnd, pr, mx, dec, cs, tb, wb>>

CtLoad ==
  /\ ct.from # "none"
  /\ ct.load.n < MaxLoads
  /\ LET r == loadFromBytes(ct.dst, ct.wire)
     IN ct' = [ct EXCEPT !.dst = r.c,
                         !.load = [n |-> ct.load.n + 1, thrown |-> r.thrown, diag |-> r.diag,
                                   input |-> ct.wire, before |-> ct.dst,
                                   fresh |-> ct.load.n = 0]]
  /\ UNCHANGED <<build, pol, zp, g1, g2, gt, rnd, pr, mx, dec, cs, tb, wb>>

CtNext ==
  \/ CtSetHeaderRng
  \/ CtSetHeaderUid
  \/ CtSetBody
  \/ CtExport
  \/ CtReceive
  \/ CtLoad

SpecCt == CtInit /\ [][CtNext]_vars


(***************************************************************************)
(* Claims about the container                                              *)
(***************************************************************************)
SameHeaderAndBody(a, b) ==
  /\ a.libraryVersion = b.libraryVersion
  /\ a.curveID = b.curveID
  /\ a.algorithmID = b.algorithmID
  /\ a.uid = b.uid
  /\ a.body = b.body

\* the first load of this behaviour read the bytes exportToBytes wrote for a
\* container with a valid curve id and scheme id, a UID of at least UID_LEN
\* bytes and a non-empty body
LoadedAnExport ==
  /\ build.comp = "ct"
  /\ ct.load.n = 1
  /\ ct.from = "export"
  /\ ct.sent.curveID \in CurveIDs
  /\ ct.sent.algorithmID \in SchemeIDs
  /\ Len(ct.sent.uid) >= UID_LEN
  /\ Len(ct.sent.body) > 0

\* C1: loadFromBytes on a fresh container, given the bytes exportToBytes wrote
\* for a container C with a valid curve id and scheme id, a UID of at least 16
\* bytes and a non-empty body, yields C's library version, curve id, scheme id,
\* UID and body.
C1_LoadOfExportIsSame ==
  LoadedAnExport => SameHeaderAndBody(ct.dst, ct.sent)

\* the library-version byte of an input whose first section is a 19-byte header
HasHeader(input) ==
  Len(input) >= 3 + UID_LEN /\ Len(smartUnpack(input, 0).buf) = 3 + UID_LEN
HeaderVersion(input) == smartUnpack(input, 0).buf[1]

\* C2: loadFromBytes on an input whose header carries a library version greater
\* than the current one fails with InvalidLibVersion: the caller gets that error.
C2_NewerVersionFails ==
  (/\ build.comp = "ct"
   /\ ct.load.n >= 1
   /\ HasHeader(ct.load.input)
   /\ HeaderVersion(ct.load.input) > OpenABE_LIBRARY_VERSION)
  => ct.load.thrown = "InvalidLibVersion"


(***************************************************************************)
(* Strings (std::string): sequences of character codes, compared as        *)
(* std::string::operator< compares them.                                   *)
(***************************************************************************)
Min(S) == CHOOSE x \in S : \A y \in S : x <= y

StrLess(a, b) ==
  LET m == IF Len(a) < Len(b) THEN Len(a) ELSE Len(b)
      D == { i \in 1..m : a[i] # b[i] }
  IN IF D = {} THEN Len(a) < Len(b) ELSE a[Min(D)] < b[Min(D)]

\* operator<< of an unsigned integer on a stringstream
RECURSIVE Dec(_)
Dec(n) == IF n < 10 THEN << 48 + n >> ELSE Dec(n \div 10) \o << 48 + (n % 10) >>

StrAnd   == << 32, 97, 110, 100, 32 >>   \* " and "
StrOr    == << 32, 111, 114, 32 >>       \* " or "
StrOf    == << 32, 111, 102, 32 >>       \* " of "
StrOpen  == << 40 >>                     \* "("
StrClose == << 41 >>                     \* ")"
StrComma == << 44, 32 >>                 \* ", "
COLON    == << 58 >>                     \* ":"

(***************************************************************************)
(* Policy trees (OpenABETreeNode, OpenABEPolicy)                           *)
(***************************************************************************)
GATE_TYPE_LEAF == "LEAF"
GATE_TYPE_AND == "AND"
GATE_TYPE_OR == "OR"
GATE_TYPE_THRESHOLD == "THRESHOLD"

\* OpenABETreeNode(label, prefix): a leaf
LeafNode(prefix, label) ==
  [ nodeType |-> GATE_TYPE_LEAF, thresholdValue |-> 0, prefix |-> prefix,
    label |-> label, subnodes |-> << >> ]

\* a gate with its subnodes (setNodeType, setThresholdValue, addSubnode)
GateNode(type, k, kids) ==
  [ nodeType |-> type, thresholdValue |-> k, prefix |-> << >>, label |-> << >>,
    subnodes |-> kids ]

\* OpenABETreeNode::getThresholdValue
getThresholdValue(n) ==
  CASE n.nodeType = GATE_TYPE_AND -> Len(n.subnodes)
    [] n.nodeType = GATE_TYPE_OR -> 1
    [] n.nodeType = GATE_TYPE_THRESHOLD -> n.thresholdValue
    [] OTHER -> 0

\* OpenABETreeNode::toString
RECURSIVE toString(_)
toString(n) ==
  IF n.nodeType = GATE_TYPE_LEAF
    THEN IF n.prefix # << >> THEN (n.prefix \o COLON) \o n.label ELSE n.label
    ELSE
      LET kids == n.subnodes
          recurse == n.nodeType \in {GATE_TYPE_AND, GATE_TYPE_OR}
          op == CASE n.nodeType = GATE_TYPE_AND -> StrAnd
                  [] n.nodeType = GATE_TYPE_OR -> StrOr
                  [] OTHER -> Dec(n.thresholdValue) \o StrOf
          threshold == CASE n.nodeType = GATE_TYPE_AND -> Len(kids)
                         [] n.nodeType = GATE_TYPE_OR -> 1
                         [] OTHER -> 0
          \* "x, y, z, " for the subnodes from i on
          listed[i \in 1..(Len(kids) + 1)] ==
            IF i > Len(kids) THEN << >>
            ELSE (toString(kids[i]) \o StrComma) \o listed[i + 1]
      IN IF Len(kids) = 2
           THEN (StrOpen
                 \o (IF recurse THEN (toString(kids[1]) \o op) \o toString(kids[2])
                                ELSE << >>))
                \o StrClose
           ELSE ((IF recurse THEN Dec(threshold) \o StrOf ELSE << >>)
                 \o StrOpen)
                \o (SubSeq(listed[1], 1, Len(listed[1]) - 2) \o StrClose)

(***************************************************************************)
(* std::sort as sortChildren calls it, on a vector of (string, node) pairs *)
(* with the comparison a.first < b.first.  The order std::sort gives to    *)
(* elements that compare equal is the library's: this is the GNU library's *)
(* introsort (a median-of-three quicksort on ranges longer than            *)
(* S_threshold, then one insertion sort).  Its switch to a heap sort after *)
(* 2*lg(n) partitioning levels needs a range of 25 elements or more and is *)
(* left out.  Positions are 1-based; last is one past the range.           *)
(***************************************************************************)
S_threshold == 16

comp(s, i, j) == StrLess(s[i].first, s[j].first)

iter_swap(s, i, j) == [s EXCEPT ![i] = s[j], ![j] = s[i]]

move_median_to_first(s, result, a, b, c) ==
  IF comp(s, a, b)
    THEN IF comp(s, b, c) THEN iter_swap(s, result, b)
         ELSE IF comp(s, a, c) THEN iter_swap(s, result, c)
         ELSE iter_swap(s, result, a)
    ELSE IF comp(s, a, c) THEN iter_swap(s, result, a)
         ELSE IF comp(s, b, c) THEN iter_swap(s, result, c)
         ELSE iter_swap(s, result, b)

RECURSIVE ScanUp(_, _, _)
ScanUp(s, first, pivot) ==
  IF comp(s, first, pivot) THEN ScanUp(s, first + 1, pivot) ELSE first

RECURSIVE ScanDown(_, _, _)
ScanDown(s, last, pivot) ==
  IF comp(s, pivot, last) THEN ScanDown(s, last - 1, pivot) ELSE last

RECURSIVE unguarded_partition(_, _, _, _)
unguarded_partition(s, first, last, pivot) ==
  LET f == ScanUp(s, first, pivot)
      l == ScanDown(s, last - 1, pivot)
  IN IF ~(f < l) THEN [s |-> s, cut |-> f]
     ELSE unguarded_partition(iter_swap(s, f, l), f + 1, l, pivot)

unguarded_partition_pivot(s, first, last) ==
  LET mid == first + ((last - first) \div 2)
  IN unguarded_partition(move_median_to_first(s, first, first + 1, mid, last - 1),
                         first + 1, last, first)

RECURSIVE introsort_loop(_, _, _)
introsort_loop(s, first, last) ==
  IF last - first > S_threshold
    THEN LET r == unguarded_partition_pivot(s, first, last)
         IN introsort_loop(introsort_loop(r.s, r.cut, last), first, r.cut)
    ELSE s

\* the insertion sort: x goes before the first element greater than it
RECURSIVE InsertByKey(_, _)
InsertByKey(sorted, x) ==
  IF sorted = << >> THEN << x >>
  ELSE IF StrLess(x.first, sorted[Len(sorted)].first)
    THEN InsertByKey(SubSeq(sorted, 1, Len(sorted) - 1), x) \o << sorted[Len(sorted)] >>
    ELSE sorted \o << x >>

RECURSIVE SortPairs(_)
SortPairs(pairs) ==
  IF pairs = << >> THEN << >>
  ELSE InsertByKey(SortPairs(SubSeq(pairs, 1, Len(pairs) - 1)), pairs[Len(pairs)])

std_sort(pairs) ==
  IF pairs = << >> THEN pairs
  ELSE SortPairs(introsort_loop(pairs, 1, Len(pairs) + 1))

\* sortChildren with the early return taken one subnode too late
sortChildren_SkipPairs(node) ==
  IF node.nodeType \notin {GATE_TYPE_AND, GATE_TYPE_OR, GATE_TYPE_THRESHOLD}
    THEN node
  ELSE IF Len(node.subnodes) <= 2
    THEN node
  ELSE LET child_pairs == [i \in 1..Len(node.subnodes) |->
                             [first |-> toString(node.subnodes[i]),
                              second |-> node.subnodes[i]]]
           sorted == std_sort(child_pairs)
       IN [node EXCEPT !.subnodes = [i \in 1..Len(sorted) |-> sorted[i].second]]

\* OpenABEPolicy::sortChildren
sortChildren(node) ==
  IF node.nodeType \notin {GATE_TYPE_AND, GATE_TYPE_OR, GATE_TYPE_THRESHOLD}
    THEN node
  ELSE IF Len(node.subnodes) <= 1
    THEN node
  ELSE LET child_pairs == [i \in 1..Len(node.subnodes) |->
                             [first |-> toString(node.subnodes[i]),
                              second |-> node.subnodes[i]]]
           sorted == std_sort(child_pairs)
       IN [node EXCEPT !.subnodes = [i \in 1..Len(sorted) |-> sorted[i].second]]

\* the subnodes from i on, each subnode of the node's own gate type replaced by
\* its subnodes
RECURSIVE Spliced(_, _)
Spliced(node, i) ==
  IF i > Len(node.subnodes) THEN << >>
  ELSE (IF node.subnodes[i].nodeType = node.nodeType
          THEN node.subnodes[i].subnodes
          ELSE << node.subnodes[i] >>) \o Spliced(node, i + 1)

\* Spliced dropping the subnodes of the node's own gate type
RECURSIVE Spliced_OwnTypeDropped(_, _)
Spliced_OwnTypeDropped(node, i) ==
  IF i > Len(node.subnodes) THEN << >>
  ELSE (IF node.subnodes[i].nodeType = node.nodeType
          THEN << >>
          ELSE << node.subnodes[i] >>) \o Spliced_OwnTypeDropped(node, i + 1)

\* flattenAssociative replacing the subnodes without the subnodes of the
\* flattened children
flattenAssociative_DropNested(node) ==
  IF node.nodeType \notin {GATE_TYPE_AND, GATE_TYPE_OR}
    THEN node
  ELSE IF \A i \in 1..Len(node.subnodes) : node.subnodes[i].nodeType # node.nodeType
    THEN node
  ELSE [node EXCEPT !.subnodes = Spliced_OwnTypeDropped(node, 1)]

\* flattenAssociative splicing in the first subnode of the node's type only
flattenAssociative_FirstOnly(node) ==
  IF node.nodeType \notin {GATE_TYPE_AND, GATE_TYPE_OR}
    THEN node
  ELSE IF \A i \in 1..Len(node.subnodes) : node.subnodes[i].nodeType # node.nodeType
    THEN node
  ELSE LET j == Min({ i \in 1..Len(node.subnodes) :
                        node.subnodes[i].nodeType = node.nodeType })
       IN [node EXCEPT !.subnodes =
             (SubSeq(node.subnodes, 1, j - 1) \o node.subnodes[j].subnodes)
             \o SubSeq(node.subnodes, j + 1, Len(node.subnodes))]

\* OpenABEPolicy::flattenAssociative
flattenAssociative(node) ==
  IF node.nodeType \notin {GATE_TYPE_AND, GATE_TYPE_OR}
    THEN node
  ELSE IF \A i \in 1..Len(node.subnodes) : node.subnodes[i].nodeType # node.nodeType
    THEN node
  ELSE [node EXCEPT !.subnodes = Spliced(node, 1)]

\* OpenABEPolicy::canonicalizeNode
RECURSIVE canonicalizeNode(_)
canonicalizeNode(node) ==
  IF node.nodeType = GATE_TYPE_LEAF THEN node
  ELSE sortChildren(flattenAssociative(
         [node EXCEPT !.subnodes =
            [i \in 1..Len(node.subnodes) |-> canonicalizeNode(node.subnodes[i])]]))

\* OpenABEPolicy::canonicalize (of a policy with a root node)
canonicalize(root) == canonicalizeNode(root)

\* OpenABEPolicy::toCanonicalString: canonicalize a deep copy, render it
toCanonicalString(root) == toString(canonicalize(root))


(***************************************************************************)
(* The policy component: two policy objects as the parser (Driver) hands   *)
(* them over, pol.tree and pol.alt, canonicalized and rendered.            *)
(***************************************************************************)
MaxLabel == 2       \* attribute labels "a", "b", ...
MaxCanon == 2       \* canonicalize() calls on one policy
MaxRewrites == 3    \* regrouping / reordering steps between the two policies

LeafSet ==
  { LeafNode(<< >>, << 96 + i >>) : i \in 1..MaxLabel } \cup { LeafNode(<< 110 >>, << 97 >>) }

BinGates(K) ==
  { GateNode(t, 0, << x, y >>) : t \in {GATE_TYPE_AND, GATE_TYPE_OR}, x \in K, y \in K }

Thresh2(K) ==
  { GateNode(GATE_TYPE_THRESHOLD, k, << x, y >>) : k \in 1..2, x \in K, y \in K }

Thresh3(K) ==
  { GateNode(GATE_TYPE_THRESHOLD, k, << x, y, z >>) : k \in 1..3, x \in K, y \in K, z \in K }

SmallTrees == (LeafSet \cup BinGates(LeafSet)) \cup (Thresh2(LeafSet) \cup Thresh3(LeafSet))

\* a conjunction of WideLen threshold gates over the same two attributes, all
\* "1 of" but the j-th, which is "2 of"
WideLen == S_threshold + 1

WideTrees ==
  { GateNode(GATE_TYPE_AND, 0,
             [i \in 1..WideLen |->
                GateNode(GATE_TYPE_THRESHOLD, IF i = j THEN 2 ELSE 1,
                         << LeafNode(<< >>, << 97 >>), LeafNode(<< >>, << 98 >>) >>)])
    : j \in 1..WideLen }

\* "1 of (a, b)" and "2 of (a, b)"
ThreshAB == Thresh2({ LeafNode(<< >>, << 97 >>) }) \cup Thresh2({ LeafNode(<< >>, << 98 >>) })

ParsedTrees ==
  (SmallTrees \cup WideTrees)
  \cup (BinGates(LeafSet \cup (BinGates(LeafSet) \cup ThreshAB))
        \cup Thresh2(LeafSet \cup BinGates(LeafSet)))

\* the trees one regrouping of nested AND (or nested OR) gates, or one exchange
\* of two neighbouring children, away from n: at n itself ...
RewritesAt(n) ==
  IF n.nodeType = GATE_TYPE_LEAF THEN {}
  ELSE
    LET kids == n.subnodes
        assoc == n.nodeType \in {GATE_TYPE_AND, GATE_TYPE_OR} /\ Len(kids) = 2
    IN { [n EXCEPT !.subnodes = iter_swap(kids, i, i + 1)] : i \in 1..(Len(kids) - 1) }
       \cup (IF assoc /\ kids[2].nodeType = n.nodeType /\ Len(kids[2].subnodes) = 2
               THEN { GateNode(n.nodeType, 0,
                               << GateNode(n.nodeType, 0, << kids[1], kids[2].subnodes[1] >>),
                                  kids[2].subnodes[2] >>) }
               ELSE {})
       \cup (IF assoc /\ kids[1].nodeType = n.nodeType /\ Len(kids[1].subnodes) = 2
               THEN { GateNode(n.nodeType, 0,
                               << kids[1].subnodes[1],
                                  GateNode(n.nodeType, 0, << kids[1].subnodes[2], kids[2] >>) >>) }
               ELSE {})

\* ... or anywhere below it
RECURSIVE Rewrites(_)
Rewrites(n) ==
  RewritesAt(n)
  \cup UNION { { [n EXCEPT !.subnodes[i] = r] : r \in Rewrites(n.subnodes[i]) }
               : i \in 1..Len(n.subnodes) }

\* the attributes at the leaves of a tree, left to right, from subnode i on
RECURSIVE LeavesFrom(_, _)
LeavesFrom(n, i) ==
  IF n.nodeType = GATE_TYPE_LEAF THEN << toString(n) >>
  ELSE IF i > Len(n.subnodes) THEN << >>
  ELSE LeavesFrom(n.subnodes[i], 1) \o LeavesFrom(n, i + 1)

\* how often attribute a stands at a leaf of the tree
Occurrences(a, root) ==
  LET L == LeavesFrom(root, 1) IN Cardinality({ i \in 1..Len(L) : L[i] = a })

AttributesOf(root) ==
  LET L == LeavesFrom(root, 1) IN { L[i] : i \in 1..Len(L) }

\* the parser (Driver) counts the attributes of the string it parses: attr_count
\* maps every attribute to its number of leaves, attr_list holds the attributes
\* with more than one
Driver_attr_count(root) == [ a \in AttributesOf(root) |-> Occurrences(a, root) ]
Driver_attr_list(root) == { a \in AttributesOf(root) : Occurrences(a, root) > 1 }

\* OpenABEPolicy::OpenABEPolicy(): m_hasDuplicates and the two empty collections
NewPolicyInfo ==
  [ m_hasDuplicates |-> FALSE, m_attrDuplicateCount |-> [ a \in {} |-> 0 ],
    m_attrCompleteSet |-> {} ]

\* OpenABEPolicy::setDuplicateInfo(attr_count, attr_list)
setDuplicateInfo(info, attr_count, attr_list) ==
  [ m_hasDuplicates |-> IF attr_list # {} THEN TRUE ELSE info.m_hasDuplicates,
    m_attrDuplicateCount |->
      [ a \in (DOMAIN info.m_attrDuplicateCount) \cup attr_list |->
          IF a \in attr_list THEN attr_count[a] ELSE info.m_attrDuplicateCount[a] ],
    m_attrCompleteSet |-> info.m_attrCompleteSet \cup DOMAIN attr_count ]

NotRendered == [done |-> FALSE, str |-> << >>, altStr |-> << >>,
                canonTree |-> LeafNode(<< >>, << >>), canonAlt |-> LeafNode(<< >>, << >>)]

PolInit ==
  /\ build \in [comp : {"pol"}, backend : {"relic"}, wasm : {FALSE}]
  /\ \E t \in ParsedTrees :
       pol = [parsed |-> t, tree |-> t, prev |-> t, canon |-> 0,
              alt |-> t, related |-> TRUE, rewrites |-> 0, out |-> NotRendered,
              info |-> setDuplicateInfo(NewPolicyInfo, Driver_attr_count(t),
                                        Driver_attr_list(t)),
              assigned |-> FALSE]
  /\ ct = Idle /\ zp = Idle /\ g1 = Idle /\ g2 = Idle /\ gt = Idle /\ rnd = Idle /\ pr = Idle /\ mx = Idle /\ dec = Idle /\ cs = Idle /\ tb = Idle /\ wb = Idle

\* policy->canonicalize(): the call createPolicyTree makes on the parsed tree,
\* and any later call on the same policy
PolCanonicalize ==
  /\ pol.canon < MaxCanon
  /\ pol.rewrites = 0 /\ (pol.related \/ pol.assigned) /\ ~pol.out.done
  /\ pol' = [pol EXCEPT !.tree = canonicalize(pol.tree), !.prev = pol.tree,
                        !.canon = pol.canon + 1]
  /\ UNCHANGED <<build, ct, zp, g1, g2, gt, rnd, pr, mx, dec, cs, tb, wb>>

\* the second policy is written with its AND / OR gates grouped differently or
\* its children in another order
PolRewrite ==
  /\ pol.canon = 0 /\ pol.related /\ ~pol.out.done
  /\ pol.rewrites < MaxRewrites
  /\ pol.parsed \notin WideTrees
  /\ \E u \in Rewrites(pol.alt) :
       pol' = [pol EXCEPT !.alt = u, !.rewrites = pol.rewrites + 1]
  /\ UNCHANGED <<build, ct, zp, g1, g2, gt, rnd, pr, mx, dec, cs, tb, wb>>

\* the second policy is some other policy altogether
PolOther ==
  /\ pol.canon = 0 /\ pol.related /\ ~pol.out.done
  /\ pol.rewrites = 0
  /\ pol.parsed \in SmallTrees
  /\ \E u \in SmallTrees \ {pol.parsed} :
       pol' = [pol EXCEPT !.alt = u, !.related = FALSE]
  /\ UNCHANGED <<build, ct, zp, g1, g2, gt, rnd, pr, mx, dec, cs, tb, wb>>

\* OpenABEPolicy::operator=(rhs) with the second policy as rhs: the root node
\* becomes a copy of the root node of rhs, every other member stays
PolAssign ==
  /\ pol.canon = 0 /\ ~pol.related /\ ~pol.assigned /\ ~pol.out.done
  /\ pol' = [pol EXCEPT !.tree = pol.alt, !.parsed = pol.alt, !.prev = pol.alt,
                        !.assigned = TRUE]
  /\ UNCHANGED <<build, ct, zp, g1, g2, gt, rnd, pr, mx, dec, cs, tb, wb>>

\* toCanonicalString() of both policies
PolRender ==
  /\ ~pol.out.done
  /\ pol' = [pol EXCEPT !.out = [done |-> TRUE,
                                 str |-> toCanonicalString(pol.tree),
                                 altStr |-> toCanonicalString(pol.alt),
                                 canonTree |-> canonicalize(pol.tree),
                                 canonAlt |-> canonicalize(pol.alt)]]
  /\ UNCHANGED <<build, ct, zp, g1, g2, gt, rnd, pr, mx, dec, cs, tb, wb>>

PolNext ==
  \/ PolCanonicalize
  \/ PolRewrite
  \/ PolOther
  \/ PolAssign
  \/ PolRender

SpecPolicy == PolInit /\ [][PolNext]_vars

\* C3: canonicalize() is idempotent: a second call leaves the tree, and the
\* string it renders to, exactly as the first call left them.
C3_CanonicalizeIdempotent ==
  (build.comp = "pol" /\ pol.canon >= 2)
  => (pol.tree = pol.prev /\ toString(pol.tree) = toString(pol.prev))


\* no AND node has an AND child and no OR node an OR child, at every depth
RECURSIVE Flattened(_)
Flattened(n) ==
  \A i \in 1..Len(n.subnodes) :
    /\ Flattened(n.subnodes[i])
    /\ n.nodeType \in {GATE_TYPE_AND, GATE_TYPE_OR} => n.subnodes[i].nodeType # n.nodeType

\* the children of every gate are in ascending order of the canonical string of
\* their subtree, at every depth
RECURSIVE ChildrenAscending(_)
ChildrenAscending(n) ==
  /\ \A i \in 1..Len(n.subnodes) : ChildrenAscending(n.subnodes[i])
  /\ \A i \in 1..(Len(n.subnodes) - 1) :
       ~StrLess(toCanonicalString(n.subnodes[i + 1]), toCanonicalString(n.subnodes[i]))

\* C4: after canonicalize() returns the tree is canonical at every depth: no AND
\* node has an AND child, no OR node has an OR child, and the children of every
\* AND, OR and THRESHOLD node are in ascending order of their canonical strings.
C4_CanonicalAtEveryDepth ==
  (build.comp = "pol" /\ pol.canon >= 1)
  => (Flattened(pol.tree) /\ ChildrenAscending(pol.tree))

\* canonicalize() has returned on a parsed tree that was neither flattened nor
\* in order
C4_Witness ==
  /\ build.comp = "pol" /\ pol.canon = 1
  /\ ~Flattened(pol.parsed) /\ ~ChildrenAscending(pol.parsed)
  /\ Flattened(pol.tree) /\ ChildrenAscending(pol.tree)

\* C5: two policies that differ only in how nested AND gates (or nested OR
\* gates) are grouped and in the order of children have the same canonical
\* string.
C5_RegroupedSameCanonicalString ==
  (build.comp = "pol" /\ pol.out.done /\ pol.related)
  => pol.out.str = pol.out.altStr

\* both strings were rendered for x and (y and z) and (z and x) and y, with x, y
\* and z three different attributes
C5_Witness ==
  /\ build.comp = "pol" /\ pol.out.done /\ pol.related
  /\ LET p == pol.parsed
         u == pol.alt
     IN /\ p.nodeType = GATE_TYPE_AND /\ Len(p.subnodes) = 2
        /\ p.subnodes[1].nodeType = GATE_TYPE_LEAF
        /\ p.subnodes[2].nodeType = GATE_TYPE_AND
        /\ \A i \in 1..2 : p.subnodes[2].subnodes[i].nodeType = GATE_TYPE_LEAF
        /\ Cardinality({ p.subnodes[1], p.subnodes[2].subnodes[1],
                         p.subnodes[2].subnodes[2] }) = 3
        /\ u = GateNode(GATE_TYPE_AND, 0,
                        << GateNode(GATE_TYPE_AND, 0,
                                    << p.subnodes[2].subnodes[2], p.subnodes[1] >>),
                           p.subnodes[2].subnodes[1] >>)
        /\ pol.out.str = pol.out.altStr

\* C6: two canonicalized policy trees that render to the same canonical string
\* are the same tree: gate type, threshold value k and children agree at every
\* node.
C6_SameStringSameTree ==
  (build.comp = "pol" /\ pol.out.done /\ pol.out.str = pol.out.altStr)
  => pol.out.canonTree = pol.out.canonAlt

\* C25: after a policy is built and after every canonicalize() call,
\* has_duplicates is true exactly when some attribute occurs more than once in
\* the tree, and the attribute occurrence map matches the tree: every count it
\* holds is the attribute's number of leaves, every attribute with more than
\* one leaf has a count, and the attribute set is the set of the tree's
\* attributes.
C25_DuplicateInfoMatchesTree ==
  (build.comp = "pol" /\ pol.canon >= 1)
  => /\ pol.info.m_hasDuplicates
          <=> \E a \in AttributesOf(pol.tree) : Occurrences(a, pol.tree) > 1
     /\ \A a \in DOMAIN pol.info.m_attrDuplicateCount :
          pol.info.m_attrDuplicateCount[a] = Occurrences(a, pol.tree)
     /\ \A a \in AttributesOf(pol.tree) :
          Occurrences(a, pol.tree) > 1 => a \in DOMAIN pol.info.m_attrDuplicateCount
     /\ pol.info.m_attrCompleteSet = AttributesOf(pol.tree)

\* the attribute set S satisfies the tree: a leaf when its attribute is in S, a
\* gate when at least getThresholdValue() of its subnodes are satisfied
RECURSIVE Satisfies(_, _)
Satisfies(S, n) ==
  IF n.nodeType = GATE_TYPE_LEAF THEN toString(n) \in S
  ELSE Cardinality({ i \in 1..Len(n.subnodes) : Satisfies(S, n.subnodes[i]) })
         >= getThresholdValue(n)

\* C29: canonicalization preserves the meaning of a policy: every attribute
\* set satisfies the canonicalized tree exactly when it satisfies the tree
\* before, and every attribute stands at as many leaves as before.
C29_CanonicalizePreservesMeaning ==
  (build.comp = "pol" /\ pol.canon >= 1)
  => /\ \A S \in SUBSET AttributesOf(pol.parsed) :
          Satisfies(S, pol.tree) <=> Satisfies(S, pol.parsed)
     /\ AttributesOf(pol.tree) = AttributesOf(pol.parsed)
     /\ \A a \in AttributesOf(pol.parsed) :
          Occurrences(a, pol.tree) = Occurrences(a, pol.parsed)

\* canonicalize() has flattened and reordered a tree with a nested AND gate
\* that some attribute sets satisfy and others do not
C29_Witness ==
  /\ build.comp = "pol" /\ pol.canon >= 1
  /\ pol.parsed.nodeType = GATE_TYPE_AND
  /\ \E i \in 1..Len(pol.parsed.subnodes) : pol.parsed.subnodes[i].nodeType = GATE_TYPE_AND
  /\ \A i \in 1..Len(pol.tree.subnodes) : pol.tree.subnodes[i].nodeType = GATE_TYPE_LEAF
  /\ pol.tree # pol.parsed
  /\ \E S \in SUBSET AttributesOf(pol.parsed) : Satisfies(S, pol.tree)
  /\ \E S \in SUBSET AttributesOf(pol.parsed) :
       S # {} /\ ~Satisfies(S, pol.tree) /\ ~Satisfies(S, pol.parsed)


(***************************************************************************)
(* Scalars (ZP, the Fr of the specification): a bignum m_ZP, the order it  *)
(* is reduced by and isOrderSet.  The bignum library is a compile-time     *)
(* choice (build.backend): RELIC, OpenSSL or MCL.                          *)
(***************************************************************************)
Backends == { "relic", "openssl", "mcl" }

\* the group order r, scaled down: a prime that needs two bytes, the number of
\* points of the curve y^2 = x^3 + 3 over the field of 283 elements
Order == 277

OpenABE_ELEMENT_ZP == 177

\* the bignum a build holds for r.  An MCL bignum is an Fr element, so r itself
\* is held as 0.
GroupOrder(backend) == IF backend = "mcl" THEN 0 ELSE Order

RECURSIVE Pow2(_)
Pow2(n) == IF n = 0 THEN 1 ELSE 2 * Pow2(n - 1)

\* bn_bits / BN_num_bits
RECURSIVE bn_bits(_)
bn_bits(v) == IF v = 0 THEN 0 ELSE 1 + bn_bits(v \div 2)

\* bn_write_bin / BN_bn2bin: big-endian, no leading zero byte, nothing for 0
RECURSIVE BEBytes(_)
BEBytes(v) == IF v = 0 THEN << >> ELSE BEBytes(v \div 256) \o << v % 256 >>

\* bn_read_bin / BN_bin2bn: big-endian; leading zero bytes add nothing to the
\* value and are skipped at once
RECURSIVE BEValue(_)
BEValue(b) ==
  LET nz == { i \in 1..Len(b) : b[i] # 0 }
  IN IF nz = {} THEN 0
     ELSE IF Min(nz) > 1 THEN BEValue(SubSeq(b, Min(nz), Len(b)))
     ELSE BEValue(SubSeq(b, 1, Len(b) - 1)) * 256 + b[Len(b)]

RECURSIVE LEValue(_)
LEValue(b) == IF b = << >> THEN 0 ELSE b[1] + 256 * LEValue(Tail(b))

\* mclBnFr_setLittleEndian: the bytes read little-endian, cut to the bit length
\* of r, and to one bit less when that is still r or more
mclBnFr_setLittleEndian(buf) ==
  LET low == SubSeq(buf, 1, Min({Len(buf), (bn_bits(Order) + 7) \div 8}))
      v == LEValue(low) % Pow2(bn_bits(Order))
  IN IF v >= Order THEN v % Pow2(bn_bits(Order) - 1) ELSE v

zml_bignum_is_zero(a) == a = 0

BN_CMP_LT == -1
BN_CMP_EQ == 0
BN_CMP_GT == 1

zml_bignum_cmp(a, b) == IF a < b THEN BN_CMP_LT ELSE IF a = b THEN BN_CMP_EQ ELSE BN_CMP_GT

zml_bignum_countbytes(backend, a) ==
  IF backend = "mcl" THEN (IF a = 0 THEN 1 ELSE Len(BEBytes(a))) ELSE Len(BEBytes(a))

zml_bignum_toBin(backend, a) ==
  IF backend = "mcl" THEN (IF a = 0 THEN << 0 >> ELSE BEBytes(a)) ELSE BEBytes(a)

zml_bignum_fromBin(backend, buf) ==
  IF backend = "mcl" THEN mclBnFr_setLittleEndian(buf) ELSE BEValue(buf)

zml_bignum_mod(backend, x, o) == IF backend = "mcl" THEN x ELSE x % o

\* bn_rand(a, BN_POS, bn_bits(o)) on the RNG state s
zml_bignum_rand(s, o) ==
  BEValue(RandomBytes(s, (bn_bits(o) + 7) \div 8)) % Pow2(bn_bits(o))

zml_bignum_add(backend, x, y, o) ==
  IF backend = "mcl" THEN (x + y) % Order ELSE (x + y) % o

zml_bignum_sub_order(backend, x, y, o) ==
  CASE backend = "mcl" -> (x - y) % Order
    [] backend = "openssl" -> (x - y) % o
    [] OTHER -> IF x - y < 0 THEN (x - y) + o ELSE (x - y) % o

zml_bignum_mul(backend, x, y, o) ==
  IF backend = "mcl" THEN (x * y) % Order ELSE (x * y) % o

zml_bignum_mod_inv(backend, b, o) ==
  LET m == IF backend = "mcl" THEN Order ELSE o
  IN CHOOSE a \in 0..(m - 1) : (a * b) % m = 1

zml_bignum_div(backend, x, y, o) ==
  IF backend = "mcl" THEN (x * zml_bignum_mod_inv(backend, y, o)) % Order
  ELSE LET r == zml_bignum_mod_inv(backend, y, o)
       IN IF x = 1 THEN r ELSE zml_bignum_mul(backend, r, x, o)

zml_bignum_negate(backend, b, o) ==
  IF backend = "mcl" THEN (Order - b) % Order
  ELSE IF 0 - b < 0 THEN (0 - b) + o ELSE 0 - b

zml_bignum_lshift(backend, a, n) ==
  IF backend = "mcl" THEN (a * Pow2(n)) % Order ELSE a * Pow2(n)

zml_bignum_rshift(backend, a, n) ==
  IF backend = "mcl" THEN (a * zml_bignum_mod_inv(backend, Pow2(n), Order)) % Order
  ELSE a \div Pow2(n)

\* ZP::ZP()
NewZP == [ m_ZP |-> 0, order |-> 0, isOrderSet |-> FALSE ]

\* ZP::ZP(uint32_t x)
ZPuint(x) == [ m_ZP |-> x, order |-> 0, isOrderSet |-> FALSE ]

\* ZP::setOrder
setOrder(z, o) == IF ~z.isOrderSet THEN [z EXCEPT !.order = o, !.isOrderSet = TRUE] ELSE z

\* what an operation hands to its caller: a ZP it returns, or an error it throws
Returned(z) == [ thrown |-> NoError, returned |-> TRUE, z |-> z ]
Thrown(e) == [ thrown |-> e, returned |-> FALSE, z |-> NewZP ]

\* operator+(const ZP&, const ZP&)
operator_plus(backend, x, y) ==
  IF ~(x.isOrderSet \/ y.isOrderSet) THEN Thrown("InvalidInput")
  ELSE LET zr == setOrder(NewZP, IF x.isOrderSet THEN x.order ELSE y.order)
       IN Returned([zr EXCEPT !.m_ZP = zml_bignum_add(backend, x.m_ZP, y.m_ZP, zr.order)])

\* operator-(const ZP&, const ZP&)
operator_minus(backend, x, y) ==
  IF ~(x.isOrderSet \/ y.isOrderSet) THEN Thrown("InvalidInput")
  ELSE LET zr == setOrder(NewZP, IF x.isOrderSet THEN x.order ELSE y.order)
       IN Returned([zr EXCEPT !.m_ZP = zml_bignum_sub_order(backend, x.m_ZP, y.m_ZP, zr.order)])

\* operator-(const ZP&)
operator_neg(backend, x) ==
  IF ~x.isOrderSet THEN Thrown("InvalidInput")
  ELSE Returned([x EXCEPT !.m_ZP = zml_bignum_negate(backend, x.m_ZP, x.order)])

\* operator*(const ZP&, const ZP&)
operator_mul(backend, x, y) ==
  IF ~(x.isOrderSet \/ y.isOrderSet) THEN Thrown("InvalidInput")
  ELSE LET zr == setOrder(NewZP, IF x.isOrderSet THEN x.order ELSE y.order)
       IN Returned([zr EXCEPT !.m_ZP = zml_bignum_mul(backend, x.m_ZP, y.m_ZP, zr.order)])

\* operator/(const ZP&, const ZP&).  On a zero divisor it prints and returns
\* OpenABE_ERROR_DIVIDE_BY_ZERO, which the return type converts with
\* ZP(uint32_t); code is the number of that enumerator.
operator_div(backend, x, y, code) ==
  IF zml_bignum_is_zero(y.m_ZP) THEN Returned(ZPuint(code))
  ELSE IF ~(x.isOrderSet \/ y.isOrderSet) THEN Thrown("InvalidInput")
  ELSE LET r == setOrder(NewZP, IF x.isOrderSet THEN x.order ELSE y.order)
       IN Returned([r EXCEPT !.m_ZP = zml_bignum_div(backend, x.m_ZP, y.m_ZP, r.order)])

\* operator<<(const ZP&, int) and operator>>(const ZP&, int)
operator_lshift(backend, a, b) ==
  Returned([a EXCEPT !.m_ZP = zml_bignum_lshift(backend, a.m_ZP, b)])

operator_rshift(backend, a, b) ==
  Returned([a EXCEPT !.m_ZP = zml_bignum_rshift(backend, a.m_ZP, b)])

\* ZP::setRandom(rng, o), the RNG in state s
setRandom(backend, wasm, z, s, o) ==
  LET z1 == IF ~z.isOrderSet THEN [z EXCEPT !.isOrderSet = TRUE, !.order = o] ELSE z
      length == zml_bignum_countbytes(backend, z1.order)
      buf == RandomBytes(s, length)
  IN CASE backend = "openssl" \/ wasm ->
            [z1 EXCEPT !.m_ZP = zml_bignum_fromBin(backend, buf)]
       [] backend = "mcl" ->
            [z1 EXCEPT !.m_ZP = mclBnFr_setLittleEndian(buf)]
       [] OTHER ->
            [z1 EXCEPT !.m_ZP = zml_bignum_mod(backend, zml_bignum_rand(s, z1.order), z1.order)]

\* OpenABEByteString::pack16bits
pack16bits(n) == << (n \div 256) % 256, n % 256 >>

\* ZP::getLengthAndByteString
getLengthAndByteString(backend, z) ==
  pack16bits(zml_bignum_countbytes(backend, z.m_ZP)) \o zml_bignum_toBin(backend, z.m_ZP)

\* ZP::serialize
ZP_serialize(backend, z) == << OpenABE_ELEMENT_ZP >> \o getLengthAndByteString(backend, z)

\* ZP::deserialize, on a non-empty input: the ZP after the call
ZP_deserialize(backend, z, input) ==
  LET hdrLen == 3 IN
  IF input[1] = OpenABE_ELEMENT_ZP /\ Len(input) > hdrLen
    THEN LET len == input[3] + input[2] * 256
         IN IF ~(Len(input) = len + hdrLen) THEN z
            ELSE LET m == zml_bignum_fromBin(backend, SubSeq(input, hdrLen + 1, Len(input)))
                 IN IF z.isOrderSet /\ zml_bignum_cmp(m, z.order) = BN_CMP_GT
                      THEN [z EXCEPT !.m_ZP = zml_bignum_mod(backend, m, z.order)]
                      ELSE [z EXCEPT !.m_ZP = m]
    ELSE z


(***************************************************************************)
(* The scalar component: two scalars x and y of a caller, the operations   *)
(* applied to them, and bytes that carry a serialized scalar.              *)
(***************************************************************************)
\* OpenABE_ERROR enumerators are numbered from 1 (the enum is declared outside)
MaxErrorCode == 2
\* shift distances
MaxShift == 2

\* scalars a caller holds: reduced values with the order set, and plain numbers
SampleZP(backend) ==
  { setOrder(ZPuint(v), GroupOrder(backend)) : v \in {0, 1, 9, 10, Order - 1} }
  \cup { ZPuint(v) : v \in {0, 3} }

\* bytes from elsewhere: encodings of r and of r + 1, a cut encoding, a wrong tag
ForeignWires ==
  { << OpenABE_ELEMENT_ZP >> \o (pack16bits(Len(BEBytes(v))) \o BEBytes(v))
      : v \in {Order, Order + 1} }
  \cup { << OpenABE_ELEMENT_ZP, 0, 2, 1 >>, << OpenABE_ELEMENT_ZP + 1, 0, 1, 1 >> }

\* an operation that hands nothing to its caller
Nothing == Thrown(NoError)

\* zml_bignum_cmp of the MCL build: mclBnFr_isEqual, else the decimal strings
\* compared by their lengths and, at equal lengths, by strcmp
zml_bignum_cmp_mcl(a, b) ==
  IF a = b THEN BN_CMP_EQ
  ELSE LET buf_a == Dec(a)
           buf_b == Dec(b)
       IN IF Len(buf_a) < Len(buf_b) THEN BN_CMP_LT
          ELSE IF Len(buf_a) > Len(buf_b) THEN BN_CMP_GT
          ELSE IF StrLess(buf_a, buf_b) THEN BN_CMP_LT
          ELSE IF StrLess(buf_b, buf_a) THEN BN_CMP_GT
          ELSE BN_CMP_EQ

\* zml_bignum_cmp(x.m_ZP, y.m_ZP) as the build compiles it
ZP_cmp(backend, x, y) ==
  IF backend = "mcl" THEN zml_bignum_cmp_mcl(x.m_ZP, y.m_ZP)
  ELSE zml_bignum_cmp(x.m_ZP, y.m_ZP)

\* what a comparison hands to its caller: the bool, or the error thrown
Compared(b) == [ thrown |-> NoError, value |-> b ]

\* operator<, operator<=, operator>, operator>=, operator==, operator!= on ZP
operator_lt(backend, x, y) == Compared(ZP_cmp(backend, x, y) = BN_CMP_LT)
operator_le(backend, x, y) == Compared(ZP_cmp(backend, x, y) <= BN_CMP_EQ)
operator_gt(backend, x, y) == Compared(ZP_cmp(backend, x, y) = BN_CMP_GT)
operator_ge(backend, x, y) == Compared(ZP_cmp(backend, x, y) >= BN_CMP_EQ)
operator_eq(backend, x, y) ==
  IF ~(x.isOrderSet \/ y.isOrderSet)
    THEN [ thrown |-> "ElementNotInitialized", value |-> FALSE ]
    ELSE Compared(ZP_cmp(backend, x, y) = BN_CMP_EQ)
operator_ne(backend, x, y) == Compared(ZP_cmp(backend, x, y) # BN_CMP_EQ)

NotCompared ==
  [ lt |-> Compared(FALSE), le |-> Compared(FALSE), gt |-> Compared(FALSE),
    ge |-> Compared(FALSE), eq |-> Compared(FALSE), ne |-> Compared(FALSE) ]

ZpInit ==
  /\ build \in [comp : {"zp"}, backend : Backends, wasm : BOOLEAN]
  /\ \E x \in SampleZP(build.backend), y \in SampleZP(build.backend) :
       zp = [x |-> x, y |-> y, op |-> "none", out |-> Nothing,
             wire |-> << >>, from |-> "none", sent |-> NewZP, cmp |-> NotCompared]
  /\ ct = Idle /\ pol = Idle /\ g1 = Idle /\ g2 = Idle /\ gt = Idle /\ rnd = Idle /\ pr = Idle /\ mx = Idle /\ dec = Idle /\ cs = Idle /\ tb = Idle /\ wb = Idle

\* arithmetic comes first; serialize and deserialize end a run
Computing == zp.op \notin {"serialize", "deserialize"}

\* x.setRandom(rng, order)
ZpSetRandom ==
  /\ Computing
  /\ \E s \in 1..MaxSeed :
       LET z == setRandom(build.backend, build.wasm, zp.x, s, GroupOrder(build.backend))
       IN zp' = [zp EXCEPT !.x = z, !.op = "random", !.out = Returned(z)]
  /\ UNCHANGED <<build, ct, pol, g1, g2, gt, rnd, pr, mx, dec, cs, tb, wb>>

ZpAdd ==
  /\ Computing
  /\ zp' = [zp EXCEPT !.op = "add", !.out = operator_plus(build.backend, zp.x, zp.y)]
  /\ UNCHANGED <<build, ct, pol, g1, g2, gt, rnd, pr, mx, dec, cs, tb, wb>>

ZpSub ==
  /\ Computing
  /\ zp' = [zp EXCEPT !.op = "sub", !.out = operator_minus(build.backend, zp.x, zp.y)]
  /\ UNCHANGED <<build, ct, pol, g1, g2, gt, rnd, pr, mx, dec, cs, tb, wb>>

ZpNeg ==
  /\ Computing
  /\ zp' = [zp EXCEPT !.op = "neg", !.out = operator_neg(build.backend, zp.x)]
  /\ UNCHANGED <<build, ct, pol, g1, g2, gt, rnd, pr, mx, dec, cs, tb, wb>>

ZpMul ==
  /\ Computing
  /\ zp' = [zp EXCEPT !.op = "mul", !.out = operator_mul(build.backend, zp.x, zp.y)]
  /\ UNCHANGED <<build, ct, pol, g1, g2, gt, rnd, pr, mx, dec, cs, tb, wb>>

\* x / y, for a divisor that is 0 or has an inverse
ZpDiv ==
  /\ Computing
  /\ zp.y.m_ZP = 0 \/ zp.y.m_ZP % Order # 0
  /\ \E code \in 1..MaxErrorCode :
       zp' = [zp EXCEPT !.op = "div", !.out = operator_div(build.backend, zp.x, zp.y, code)]
  /\ UNCHANGED <<build, ct, pol, g1, g2, gt, rnd, pr, mx, dec, cs, tb, wb>>

ZpLshift ==
  /\ Computing
  /\ \E b \in 1..MaxShift :
       zp' = [zp EXCEPT !.op = "lshift", !.out = operator_lshift(build.backend, zp.x, b)]
  /\ UNCHANGED <<build, ct, pol, g1, g2, gt, rnd, pr, mx, dec, cs, tb, wb>>

ZpRshift ==
  /\ Computing
  /\ \E b \in 1..MaxShift :
       zp' = [zp EXCEPT !.op = "rshift", !.out = operator_rshift(build.backend, zp.x, b)]
  /\ UNCHANGED <<build, ct, pol, g1, g2, gt, rnd, pr, mx, dec, cs, tb, wb>>

\* x.serialize(wire)
ZpSerialize ==
  /\ Computing
  /\ zp' = [zp EXCEPT !.wire = ZP_serialize(build.backend, zp.x), !.sent = zp.x,
                      !.op = "serialize", !.out = Nothing]
  /\ UNCHANGED <<build, ct, pol, g1, g2, gt, rnd, pr, mx, dec, cs, tb, wb>>

\* y.deserialize(input), the input being the bytes serialize wrote or bytes
\* from elsewhere
ZpDeserialize ==
  /\ zp.op # "deserialize"
  /\ \E input \in ForeignWires \cup (IF zp.wire = << >> THEN {} ELSE {zp.wire}) :
       LET z == ZP_deserialize(build.backend, zp.y, input)
       IN zp' = [zp EXCEPT !.y = z, !.op = "deserialize", !.out = Returned(z),
                           !.from = IF input = zp.wire THEN "serialize" ELSE "outside"]
  /\ UNCHANGED <<build, ct, pol, g1, g2, gt, rnd, pr, mx, dec, cs, tb, wb>>

\* x < y, x <= y, x > y, x >= y, x == y and x != y
ZpCompare ==
  /\ Computing
  /\ zp' = [zp EXCEPT !.op = "compare", !.out = Nothing,
               !.cmp = [ lt |-> operator_lt(build.backend, zp.x, zp.y),
                         le |-> operator_le(build.backend, zp.x, zp.y),
                         gt |-> operator_gt(build.backend, zp.x, zp.y),
                         ge |-> operator_ge(build.backend, zp.x, zp.y),
                         eq |-> operator_eq(build.backend, zp.x, zp.y),
                         ne |-> operator_ne(build.backend, zp.x, zp.y) ]]
  /\ UNCHANGED <<build, ct, pol, g1, g2, gt, rnd, pr, mx, dec, cs, tb, wb>>

ZpNext ==
  \/ ZpSetRandom
  \/ ZpCompare
  \/ ZpAdd
  \/ ZpSub
  \/ ZpNeg
  \/ ZpMul
  \/ ZpDiv
  \/ ZpLshift
  \/ ZpRshift
  \/ ZpSerialize
  \/ ZpDeserialize

SpecZP == ZpInit /\ [][ZpNext]_vars

\* C7: dividing by a scalar equal to 0 fails with DivideByZero: the error is
\* thrown and no scalar is returned to the caller.
C7_DivideByZeroFails ==
  (build.comp = "zp" /\ zp.op = "div" /\ zp.y.m_ZP = 0)
  => (zp.out.thrown = "DivideByZero" /\ ~zp.out.returned)

\* C8: every scalar of order r that an operation returns (random sampling, a
\* shift, arithmetic, deserialization) lies in [0, r).
C8_ObservableInRange ==
  (build.comp = "zp" /\ zp.out.returned /\ zp.out.z.isOrderSet)
  => (0 <= zp.out.z.m_ZP /\ zp.out.z.m_ZP < Order)

\* C9: on every backend, deserialize applied to the bytes serialize wrote for a
\* scalar e in [0, r) yields a scalar equal to e.
C9_DeserializeOfSerialize ==
  (/\ build.comp = "zp" /\ zp.op = "deserialize" /\ zp.from = "serialize"
   /\ 0 <= zp.sent.m_ZP /\ zp.sent.m_ZP < Order)
  => zp.out.z.m_ZP = zp.sent.m_ZP


(***************************************************************************)
(* G1 points and StandardPairingSerializer.  The curve is y^2 = x^3 + 3    *)
(* over the field of FieldPrime elements; its points form a group of the   *)
(* prime order r.                                                          *)
(***************************************************************************)
FieldPrime == 283

OpenABE_ELEMENT_G1 == 178
OPENABE_LEGACY == 0
SEC1_STANDARD == 1
ZCASH_BLS12 == 2
ETHEREUM_BN254 == 3
FORMAT_AUTO == 255
COMPRESSION_FLAG == 128
INFINITY_FLAG == 64
Y_SIGN_FLAG == 32
CURRENT_VERSION == 2
getHeaderSize == 9
MAGIC == << 79, 65, 66, 69 >>

Infinity == [ inf |-> TRUE, x |-> 0, y |-> 0 ]
Affine(x, y) == [ inf |-> FALSE, x |-> x, y |-> y ]

\* fp_srt: the square roots of x^3 + 3 in the field
Roots(x) ==
  { y \in 0..(FieldPrime - 1) : (y * y) % FieldPrime = (x * x * x + 3) % FieldPrime }

CurvePoints ==
  {Infinity} \cup UNION { { Affine(x, y) : y \in Roots(x) } : x \in 0..(FieldPrime - 1) }

RECURSIVE BitAnd(_, _)
BitAnd(a, b) ==
  IF a = 0 \/ b = 0 THEN 0 ELSE (a % 2) * (b % 2) + 2 * BitAnd(a \div 2, b \div 2)

\* field_element_to_bytes(elem, out, field_size, big_endian = true)
field_element_to_bytes(backend, elem, field_size) ==
  LET actual_size == zml_bignum_countbytes(backend, elem)
      offset == IF field_size > actual_size THEN field_size - actual_size ELSE 0
      bin == zml_bignum_toBin(backend, elem)
  IN [ i \in 1..field_size |->
         IF i > offset /\ i - offset <= Len(bin) THEN bin[i - offset] ELSE 0 ]

\* bytes_to_field_element(elem, in, 0, big_endian = true).  MCL reads the
\* bytes little-endian and keeps the low bits of r's length: of a zero-padded
\* big-endian coordinate that is 0 at this scale.
bytes_to_field_element(backend, in) == zml_bignum_fromBin(backend, in)

get_field_size(curve) ==
  CASE curve \in {OpenABE_BN_P254_ID, OpenABE_BN_P256_ID, OpenABE_NIST_P256_ID} -> 32
    [] curve \in {OpenABE_BN_P382_ID, OpenABE_NIST_P384_ID} -> 48
    [] curve = OpenABE_BN_P638_ID -> 80
    [] curve = OpenABE_NIST_P521_ID -> 66
    [] OTHER -> 32

y_is_lexicographically_largest(backend, y, p) ==
  zml_bignum_cmp(y, zml_bignum_rshift(backend, p, 1)) = BN_CMP_GT

selectFormat(curve) ==
  CASE curve = OpenABE_BN_P382_ID -> ZCASH_BLS12
    [] curve \in {OpenABE_BN_P254_ID, OpenABE_BN_P256_ID} -> ETHEREUM_BN254
    [] OTHER -> SEC1_STANDARD

\* SerializationHeader(type, curve, fmt).serialize
Header_serialize(type, curve, fmt) == MAGIC \o << CURRENT_VERSION, type, curve, fmt, 0 >>

\* SerializationHeader::deserialize at index 0: whether it succeeded, the
\* format it read and the index it leaves
Header_deserialize(in) ==
  IF Len(in) < getHeaderSize \/ SubSeq(in, 1, 4) # MAGIC
    THEN [ ok |-> FALSE, format |-> OPENABE_LEGACY, index |-> 0 ]
    ELSE [ ok |-> TRUE, format |-> in[8], index |-> getHeaderSize ]

\* what a decoder leaves: the point now in its target, and the error it threw
Decoded(Q) == [ thrown |-> NoError, point |-> Q ]
Failed(e, old) == [ thrown |-> e, point |-> old ]

\* BPGroup::getGroupOrder
getGroupOrder(backend) == GroupOrder(backend)

bn_is_even(a) == a % 2 = 0

\* extractG1Coordinates: the affine x and y as bignums (Fr elements under MCL)
extractG1Coordinates(backend, P) ==
  IF backend = "mcl"
    THEN [ x |-> zml_bignum_fromBin(backend, << P.x % 256, P.x \div 256 >>),
           y |-> zml_bignum_fromBin(backend, << P.y % 256, P.y \div 256 >>) ]
    ELSE [ x |-> P.x, y |-> P.y ]

\* setG1FromCoordinates into a target holding old
setG1FromCoordinates(backend, old, x, y) ==
  CASE backend = "mcl" -> Failed("NotImplemented", old)
    [] backend = "openssl" ->
         IF x < FieldPrime /\ y \in Roots(x) THEN Decoded(Affine(x, y)) ELSE Decoded(old)
    [] OTHER -> Decoded(Affine(x % FieldPrime, y % FieldPrime))

\* decompressG1Point; largest says which of the two roots fp_srt returns
decompressG1Point(backend, x, y_bit, largest) ==
  IF backend \in {"openssl", "mcl"}
    THEN [ thrown |-> "NotImplemented", ok |-> FALSE, y |-> 0 ]
  ELSE LET roots == Roots(x % FieldPrime) IN
    IF roots = {} THEN [ thrown |-> NoError, ok |-> FALSE, y |-> 0 ]
    ELSE LET y_candidate == IF largest THEN 0 - Min({ 0 - y : y \in roots }) ELSE Min(roots)
             candidate_is_odd == ~bn_is_even(y_candidate)
         IN [ thrown |-> NoError, ok |-> TRUE,
              y |-> IF candidate_is_odd # y_bit
                      THEN getGroupOrder(backend) - y_candidate
                      ELSE y_candidate ]


serializeG1_SEC1(backend, curve, P, compressed) ==
  IF P.inf THEN << 0 >>
  ELSE LET c == extractG1Coordinates(backend, P)
           field_size == get_field_size(curve)
       IN IF compressed
            THEN << IF bn_is_even(c.y) THEN 2 ELSE 3 >>
                   \o field_element_to_bytes(backend, c.x, field_size)
            ELSE << 4 >> \o (field_element_to_bytes(backend, c.x, field_size)
                   \o field_element_to_bytes(backend, c.y, field_size))

deserializeG1_SEC1(backend, curve, old, in, largest) ==
  LET field_size == get_field_size(curve) IN
  IF Len(in) = 0 THEN Failed("SerializationFailed", old)
  ELSE IF in[1] = 0 THEN Decoded(Infinity)
  ELSE IF in[1] = 4 THEN
    IF Len(in) # 1 + 2 * field_size THEN Failed("SerializationFailed", old)
    ELSE setG1FromCoordinates(backend, old,
           bytes_to_field_element(backend, SubSeq(in, 2, 1 + field_size)),
           bytes_to_field_element(backend, SubSeq(in, 2 + field_size, 1 + 2 * field_size)))
  ELSE IF in[1] \in {2, 3} THEN
    IF Len(in) # 1 + field_size THEN Failed("SerializationFailed", old)
    ELSE LET x == bytes_to_field_element(backend, SubSeq(in, 2, 1 + field_size))
             d == decompressG1Point(backend, x, in[1] = 3, largest)
         IN IF d.thrown # NoError THEN Failed(d.thrown, old)
            ELSE IF ~d.ok THEN Failed("SerializationFailed", old)
            ELSE setG1FromCoordinates(backend, old, x, d.y)
  ELSE Failed("SerializationFailed", old)

serializeG1_ZCash(backend, curve, P, compressed) ==
  LET field_size == get_field_size(curve) IN
  IF P.inf
    THEN << COMPRESSION_FLAG + INFINITY_FLAG >> \o [ i \in 1..(field_size - 1) |-> 0 ]
  ELSE LET c == extractG1Coordinates(backend, P)
           p == getGroupOrder(backend)
       IN IF compressed
            THEN LET flags == COMPRESSION_FLAG
                       + (IF y_is_lexicographically_largest(backend, c.y, p)
                            THEN Y_SIGN_FLAG ELSE 0)
                     x_bytes == field_element_to_bytes(backend, c.x, field_size)
                 IN [ x_bytes EXCEPT ![1] = (@ + flags) - BitAnd(@, flags) ]
            ELSE field_element_to_bytes(backend, c.x, field_size)
                   \o field_element_to_bytes(backend, c.y, field_size)

deserializeG1_ZCash(backend, curve, old, in, largest) ==
  LET field_size == get_field_size(curve) IN
  IF Len(in) < field_size THEN Failed("SerializationFailed", old)
  ELSE IF BitAnd(in[1], INFINITY_FLAG) # 0 THEN Decoded(Infinity)
  ELSE IF BitAnd(in[1], COMPRESSION_FLAG) # 0 THEN
    LET x_bytes == [ SubSeq(in, 1, field_size) EXCEPT ![1] = BitAnd(@, 31) ]
        x == bytes_to_field_element(backend, x_bytes)
        y_is_largest == BitAnd(in[1], Y_SIGN_FLAG) # 0
        d == decompressG1Point(backend, x, y_is_largest, largest)
        p == getGroupOrder(backend)
    IN IF d.thrown # NoError THEN Failed(d.thrown, old)
       ELSE IF ~d.ok THEN Failed("SerializationFailed", old)
       ELSE setG1FromCoordinates(backend, old, x,
              IF y_is_lexicographically_largest(backend, d.y, p) # y_is_largest
                THEN p - d.y ELSE d.y)
  ELSE IF Len(in) # 2 * field_size THEN Failed("SerializationFailed", old)
  ELSE setG1FromCoordinates(backend, old,
         bytes_to_field_element(backend, SubSeq(in, 1, field_size)),
         bytes_to_field_element(backend, SubSeq(in, field_size + 1, 2 * field_size)))

serializeG1_Ethereum(backend, P) ==
  IF P.inf THEN [ i \in 1..64 |-> 0 ]
  ELSE LET c == extractG1Coordinates(backend, P)
       IN field_element_to_bytes(backend, c.x, 32) \o field_element_to_bytes(backend, c.y, 32)

deserializeG1_Ethereum(backend, old, in) ==
  IF Len(in) # 64 THEN Failed("SerializationFailed", old)
  ELSE LET x == bytes_to_field_element(backend, SubSeq(in, 1, 32))
           y == bytes_to_field_element(backend, SubSeq(in, 33, 64))
       IN IF zml_bignum_is_zero(x) /\ zml_bignum_is_zero(y)
            THEN Decoded(Infinity)
            ELSE setG1FromCoordinates(backend, old, x, y)

\* serializeG1 with one of the standard formats or FORMAT_AUTO (no other
\* format reaches the legacy encoder of the default branch)
serializeG1(backend, curve, P, fmt, with_header) ==
  LET format == IF fmt = FORMAT_AUTO THEN selectFormat(curve) ELSE fmt
      header == IF with_header
                  THEN Header_serialize(OpenABE_ELEMENT_G1, curve, format) ELSE << >>
  IN header \o
     CASE format = ZCASH_BLS12 -> serializeG1_ZCash(backend, curve, P, TRUE)
       [] format = ETHEREUM_BN254 -> serializeG1_Ethereum(backend, P)
       [] format = SEC1_STANDARD -> serializeG1_SEC1(backend, curve, P, TRUE)

\* g1_convert_to_point on RELIC and OpenSSL: ep_read_bin / G1_ELEM_oct2point
\* read an octet string (00, or 02/03 and x, or 04 and x and y); on any other
\* input the error is printed and the target is left as it was
g1_convert_to_point(curve, old, bin) ==
  LET len == get_field_size(curve)
      x == BEValue(SubSeq(bin, 2, len + 1))
  IN IF Len(bin) = 1 /\ bin[1] = 0 THEN Decoded(Infinity)
     ELSE IF Len(bin) = len + 1 /\ bin[1] \in {2, 3} /\ x < FieldPrime
               /\ \E y \in Roots(x) : y % 2 = bin[1] % 2
       THEN Decoded(Affine(x, CHOOSE y \in Roots(x) : y % 2 = bin[1] % 2))
     ELSE IF Len(bin) = 2 * len + 1 /\ bin[1] = 4 /\ x < FieldPrime
               /\ BEValue(SubSeq(bin, len + 2, 2 * len + 1)) \in Roots(x)
       THEN Decoded(Affine(x, BEValue(SubSeq(bin, len + 2, 2 * len + 1))))
     ELSE Decoded(old)

deserializeG1(backend, curve, old, in, has_header, largest) ==
  LET header == IF has_header THEN Header_deserialize(in)
                ELSE [ ok |-> FALSE, format |-> OPENABE_LEGACY, index |-> 0 ]
      format == header.format
      data == SubSeq(in, header.index + 1, Len(in))
  IN CASE format = ZCASH_BLS12 -> deserializeG1_ZCash(backend, curve, old, data, largest)
       [] format = ETHEREUM_BN254 -> deserializeG1_Ethereum(backend, old, data)
       [] format = SEC1_STANDARD -> deserializeG1_SEC1(backend, curve, old, data, largest)
       [] OTHER -> g1_convert_to_point(curve, old, data)

(***************************************************************************)
(* The G1 component: a point P is serialized, and the bytes are            *)
(* deserialized into a target point.                                       *)
(***************************************************************************)
G1Curves == { OpenABE_BN_P254_ID, OpenABE_BN_P382_ID, OpenABE_BN_P638_ID }
StandardFormats == { SEC1_STANDARD, ZCASH_BLS12, ETHEREUM_BN254, FORMAT_AUTO }

G1Init ==
  /\ build \in [comp : {"g1"}, backend : Backends, wasm : {FALSE}]
  /\ \E P \in CurvePoints, curve \in G1Curves, old \in {Infinity, Affine(1, 2)} :
       g1 = [ P |-> P, curve |-> curve, old |-> old, op |-> "none", fmt |-> OPENABE_LEGACY,
              hdr |-> FALSE, wire |-> << >>, out |-> Decoded(old) ]
  /\ ct = Idle /\ pol = Idle /\ zp = Idle /\ g2 = Idle /\ gt = Idle /\ rnd = Idle /\ pr = Idle /\ mx = Idle /\ dec = Idle /\ cs = Idle /\ tb = Idle /\ wb = Idle

\* serializeG1(wire, P, fmt, hdr).  Without a header the bytes go to the
\* backend's own decoder, and MCL's is left out.
G1Serialize ==
  /\ g1.op = "none"
  /\ \E fmt \in StandardFormats, hdr \in BOOLEAN :
       /\ hdr \/ build.backend # "mcl"
       /\ g1' = [ g1 EXCEPT !.op = "serialize", !.fmt = fmt, !.hdr = hdr,
                            !.wire = serializeG1(build.backend, g1.curve, g1.P, fmt, hdr) ]
  /\ UNCHANGED <<build, ct, pol, zp, g2, gt, rnd, pr, mx, dec, cs, tb, wb>>

\* deserializeG1(target, wire, hdr), with the header flag serializeG1 was given
G1Deserialize ==
  /\ g1.op = "serialize"
  /\ \E largest \in BOOLEAN :
       g1' = [ g1 EXCEPT !.op = "deserialize",
                 !.out = deserializeG1(build.backend, g1.curve, g1.old, g1.wire, g1.hdr, largest) ]
  /\ UNCHANGED <<build, ct, pol, zp, g2, gt, rnd, pr, mx, dec, cs, tb, wb>>

G1Next ==
  \/ G1Serialize
  \/ G1Deserialize

SpecG1 == G1Init /\ [][G1Next]_vars

\* C10: for every G1 point P, the identity included, and every standard
\* format (SEC1, ZCASH, ETHEREUM, AUTO), with the header or without it,
\* deserializeG1 of the output of serializeG1 yields a point equal to P.
C10_G1RoundTrip ==
  (build.comp = "g1" /\ g1.op = "deserialize")
  => (g1.out.thrown = NoError /\ g1.out.point = g1.P)


(***************************************************************************)
(* G2 points: pairs of Fp2 coordinates, an Fp2 element a + b*u (u^2 = -1)  *)
(* written << a, b >>.                                                     *)
(***************************************************************************)
OpenABE_ELEMENT_G2 == 179

Infinity2 == [ inf |-> TRUE, x |-> << 0, 0 >>, y |-> << 0, 0 >> ]
Affine2(x, y) == [ inf |-> FALSE, x |-> x, y |-> y ]

\* fp2_mul
fp2_mul(a, b) ==
  << (a[1] * b[1] - a[2] * b[2]) % FieldPrime, (a[1] * b[2] + a[2] * b[1]) % FieldPrime >>

\* fp2_srt of x^3 + (3, 0): the square roots in Fp2
Roots2(x) ==
  LET x3 == fp2_mul(fp2_mul(x, x), x)
      rhs == << (x3[1] + 3) % FieldPrime, x3[2] >>
  IN { y \in (0..(FieldPrime - 1)) \X (0..(FieldPrime - 1)) : fp2_mul(y, y) = rhs }

\* G2 points the component serializes
G2Points ==
  { Infinity2,
    Affine2(<< 1, 0 >>, << 2, 0 >>), Affine2(<< 1, 0 >>, << 281, 0 >>),
    Affine2(<< 0, 1 >>, << 116, 111 >>), Affine2(<< 0, 1 >>, << 167, 172 >>),
    Affine2(<< 1, 3 >>, << 107, 111 >>), Affine2(<< 3, 0 >>, << 0, 155 >>) }

\* extractG2Coordinates
extractG2Coordinates(backend, P) ==
  IF backend = "mcl" THEN [ thrown |-> "NotImplemented", x |-> << 0, 0 >>, y |-> << 0, 0 >> ]
  ELSE [ thrown |-> NoError, x |-> P.x, y |-> P.y ]

\* setG2FromCoordinates into a target holding old
setG2FromCoordinates(backend, old, x, y) ==
  CASE backend = "mcl" -> Failed("NotImplemented", old)
    [] backend = "openssl" ->
         IF x[1] < FieldPrime /\ x[2] < FieldPrime /\ y \in Roots2(x)
           THEN Decoded(Affine2(x, y)) ELSE Decoded(old)
    [] OTHER -> Decoded(Affine2(<< x[1] % FieldPrime, x[2] % FieldPrime >>,
                                << y[1] % FieldPrime, y[2] % FieldPrime >>))

\* decompressG2Point; largest says which of the two roots fp2_srt returns
decompressG2Point(backend, x, y_bit, largest) ==
  IF backend \in {"openssl", "mcl"}
    THEN [ thrown |-> "NotImplemented", ok |-> FALSE, y |-> << 0, 0 >> ]
  ELSE LET roots == Roots2(<< x[1] % FieldPrime, x[2] % FieldPrime >>)
           p == getGroupOrder(backend)
       IN IF roots = {} THEN [ thrown |-> NoError, ok |-> FALSE, y |-> << 0, 0 >> ]
          ELSE LET above(a, b) == a[2] > b[2] \/ (a[2] = b[2] /\ a[1] >= b[1])
                   y_candidate == CHOOSE c \in roots :
                                    \A d \in roots : IF largest THEN above(c, d) ELSE above(d, c)
               IN [ thrown |-> NoError, ok |-> TRUE,
                    y |-> IF y_is_lexicographically_largest(backend, y_candidate[2], p) # y_bit
                            THEN << p - y_candidate[1], p - y_candidate[2] >>
                            ELSE y_candidate ]

\* the four field elements x1, x0, y1, y0 of field_size bytes each
Fp2Bytes(backend, x, y, field_size) ==
  (field_element_to_bytes(backend, x[2], field_size)
     \o field_element_to_bytes(backend, x[1], field_size))
  \o (field_element_to_bytes(backend, y[2], field_size)
     \o field_element_to_bytes(backend, y[1], field_size))

\* the Fp2 element read from 2 * field_size bytes at offset: c1 first, then c0
Fp2Read(backend, in, offset, field_size) ==
  << bytes_to_field_element(backend, SubSeq(in, offset + field_size + 1, offset + 2 * field_size)),
     bytes_to_field_element(backend, SubSeq(in, offset + 1, offset + field_size)) >>

\* serializeG2_SEC1: the bytes appended, or the error thrown (compressed is not read)
serializeG2_SEC1(backend, curve, P, compressed) ==
  IF P.inf THEN [ thrown |-> NoError, bytes |-> << 0 >> ]
  ELSE LET c == extractG2Coordinates(backend, P)
       IN IF c.thrown # NoError THEN [ thrown |-> c.thrown, bytes |-> << >> ]
          ELSE [ thrown |-> NoError,
                 bytes |-> << 4 >> \o Fp2Bytes(backend, c.x, c.y, get_field_size(curve)) ]

deserializeG2_SEC1(backend, curve, old, in, largest) ==
  LET field_size == get_field_size(curve) IN
  IF Len(in) = 0 THEN Failed("SerializationFailed", old)
  ELSE IF in[1] = 0 THEN Decoded(Infinity2)
  ELSE IF in[1] = 4 THEN
    IF Len(in) # 1 + 4 * field_size THEN Failed("SerializationFailed", old)
    ELSE setG2FromCoordinates(backend, old, Fp2Read(backend, in, 1, field_size),
                              Fp2Read(backend, in, 1 + 2 * field_size, field_size))
  ELSE IF in[1] \in {2, 3} THEN
    IF Len(in) # 1 + 2 * field_size THEN Failed("SerializationFailed", old)
    ELSE LET x == Fp2Read(backend, in, 1, field_size)
             d == decompressG2Point(backend, x, in[1] = 3, largest)
         IN IF d.thrown # NoError THEN Failed(d.thrown, old)
            ELSE IF ~d.ok THEN Failed("SerializationFailed", old)
            ELSE setG2FromCoordinates(backend, old, x, d.y)
  ELSE Failed("SerializationFailed", old)

serializeG2_ZCash(backend, curve, P, compressed) == serializeG2_SEC1(backend, curve, P, FALSE)

deserializeG2_ZCash(backend, curve, old, in, largest) ==
  LET field_size == get_field_size(curve) IN
  IF Len(in) < 2 * field_size THEN Failed("SerializationFailed", old)
  ELSE IF BitAnd(in[1], INFINITY_FLAG) # 0 THEN Decoded(Infinity2)
  ELSE IF BitAnd(in[1], COMPRESSION_FLAG) # 0 THEN
    IF Len(in) # 2 * field_size THEN Failed("SerializationFailed", old)
    ELSE LET x_bytes == [ in EXCEPT ![1] = BitAnd(@, 31) ]
             x == Fp2Read(backend, x_bytes, 0, field_size)
             y_is_largest == BitAnd(in[1], Y_SIGN_FLAG) # 0
             d == decompressG2Point(backend, x, y_is_largest, largest)
             p == getGroupOrder(backend)
         IN IF d.thrown # NoError THEN Failed(d.thrown, old)
            ELSE IF ~d.ok THEN Failed("SerializationFailed", old)
            ELSE setG2FromCoordinates(backend, old, x,
                   IF y_is_lexicographically_largest(backend, d.y[2], p) # y_is_largest
                     THEN << p - d.y[1], p - d.y[2] >> ELSE d.y)
  ELSE IF Len(in) # 4 * field_size THEN Failed("SerializationFailed", old)
  ELSE setG2FromCoordinates(backend, old, Fp2Read(backend, in, 0, field_size),
                            Fp2Read(backend, in, 2 * field_size, field_size))

serializeG2_Ethereum(backend, P) ==
  IF P.inf THEN [ thrown |-> NoError, bytes |-> [ i \in 1..128 |-> 0 ] ]
  ELSE LET c == extractG2Coordinates(backend, P)
       IN IF c.thrown # NoError THEN [ thrown |-> c.thrown, bytes |-> << >> ]
          ELSE [ thrown |-> NoError, bytes |-> Fp2Bytes(backend, c.x, c.y, 32) ]

deserializeG2_Ethereum(backend, old, in) ==
  IF Len(in) # 128 THEN Failed("SerializationFailed", old)
  ELSE setG2FromCoordinates(backend, old, Fp2Read(backend, in, 0, 32), Fp2Read(backend, in, 64, 32))

\* serializeG2(out, point, format, with_header = true) with a standard format
serializeG2(backend, curve, P, fmt) ==
  LET format == IF fmt = FORMAT_AUTO THEN selectFormat(curve) ELSE fmt
      body == CASE format = ZCASH_BLS12 -> serializeG2_ZCash(backend, curve, P, TRUE)
                [] format = ETHEREUM_BN254 -> serializeG2_Ethereum(backend, P)
                [] format = SEC1_STANDARD -> serializeG2_SEC1(backend, curve, P, TRUE)
  IN [ body EXCEPT !.bytes = Header_serialize(OpenABE_ELEMENT_G2, curve, format) \o @ ]

\* deserializeG2(point, in, has_header = true) of bytes that carry a header
deserializeG2(backend, curve, old, in, largest) ==
  LET header == Header_deserialize(in)
      data == SubSeq(in, header.index + 1, Len(in))
  IN CASE header.format = ZCASH_BLS12 -> deserializeG2_ZCash(backend, curve, old, data, largest)
       [] header.format = ETHEREUM_BN254 -> deserializeG2_Ethereum(backend, old, data)
       [] header.format = SEC1_STANDARD -> deserializeG2_SEC1(backend, curve, old, data, largest)

G2Init ==
  /\ build \in [comp : {"g2"}, backend : Backends, wasm : {FALSE}]
  /\ \E P \in G2Points, curve \in G1Curves, old \in G2Points :
       g2 = [ P |-> P, curve |-> curve, old |-> old, op |-> "none", fmt |-> OPENABE_LEGACY,
              thrown |-> NoError, wire |-> << >>, out |-> Decoded(old) ]
  /\ ct = Idle /\ pol = Idle /\ zp = Idle /\ g1 = Idle /\ gt = Idle /\ rnd = Idle /\ pr = Idle /\ mx = Idle /\ dec = Idle /\ cs = Idle /\ tb = Idle /\ wb = Idle

\* serializeG2(wire, P, fmt)
G2Serialize ==
  /\ g2.op = "none"
  /\ \E fmt \in StandardFormats :
       LET s == serializeG2(build.backend, g2.curve, g2.P, fmt)
       IN g2' = [ g2 EXCEPT !.op = "serialize", !.fmt = fmt, !.thrown = s.thrown,
                            !.wire = s.bytes ]
  /\ UNCHANGED <<build, ct, pol, zp, g1, gt, rnd, pr, mx, dec, cs, tb, wb>>

\* deserializeG2(target, wire)
G2Deserialize ==
  /\ g2.op = "serialize" /\ g2.thrown = NoError
  /\ \E largest \in BOOLEAN :
       g2' = [ g2 EXCEPT !.op = "deserialize",
                 !.out = deserializeG2(build.backend, g2.curve, g2.old, g2.wire, largest) ]
  /\ UNCHANGED <<build, ct, pol, zp, g1, gt, rnd, pr, mx, dec, cs, tb, wb>>

G2Next ==
  \/ G2Serialize
  \/ G2Deserialize

SpecG2 == G2Init /\ [][G2Next]_vars

\* C11: for every G2 point Q, the identity included, and every standard
\* format, serializeG2 succeeds and deserializeG2 of its output yields a point
\* equal to Q.
C11_G2RoundTrip ==
  (build.comp = "g2" /\ g2.op # "none")
  => /\ g2.thrown = NoError
     /\ g2.op = "deserialize" => (g2.out.thrown = NoError /\ g2.out.point = g2.P)


(***************************************************************************)
(* GT elements: the 12 Fp coefficients of an Fp12 element, in the order    *)
(* extractFp12Tower lists them.                                            *)
(***************************************************************************)
OpenABE_ELEMENT_GT == 180
IETF_PAIRING == 4
GT_FULL_TOWER == 0
GT_CYCLOTOMIC_COMPRESSED == 1
CYCLOTOMIC_FLAG == 16

\* GT::setIdentity
GTIdentity == << 1, 0, 0, 0, 0, 0, 0, 0, 0, 0, 0, 0 >>

isGTIdentity(e) == e = GTIdentity

\* GT elements the component serializes
GTElements ==
  { GTIdentity,
    << 5, 0, 0, 0, 0, 0, 0, 0, 0, 0, 0, 0 >>,
    << 17, 280, 3, 0, 44, 1, 0, 9, 282, 100, 6, 2 >>,
    << 0, 1, 0, 0, 0, 0, 0, 0, 0, 0, 0, 0 >>,
    << 1, 0, 0, 0, 0, 0, 0, 0, 0, 0, 0, 7 >> }

supports_cyclotomic_compression(curve) ==
  curve \in {OpenABE_BN_P254_ID, OpenABE_BN_P256_ID, OpenABE_BN_P382_ID, OpenABE_BN_P638_ID}

\* extractFp12Tower
extractFp12Tower(backend, e) ==
  IF backend \in {"mcl", "openssl"} THEN [ thrown |-> "NotImplemented", tower |-> << >> ]
  ELSE [ thrown |-> NoError, tower |-> e ]

\* setGTFromFp12Tower into a target holding old
setGTFromFp12Tower(backend, old, tower) ==
  IF backend \in {"mcl", "openssl"} THEN Failed("NotImplemented", old)
  ELSE Decoded([ i \in 1..12 |-> tower[i] % FieldPrime ])

\* the elements tower[from .. 11] of field_size bytes each, one after the other
RECURSIVE TowerBytes(_, _, _, _)
TowerBytes(backend, tower, from, field_size) ==
  IF from > 11 THEN << >>
  ELSE field_element_to_bytes(backend, tower[from + 1], field_size)
         \o TowerBytes(backend, tower, from + 1, field_size)

\* the identity encoding: INFINITY_FLAG, then zeros up to n bytes
IdentityBytes(n) == [ i \in 1..n |-> IF i = 1 THEN INFINITY_FLAG ELSE 0 ]

serializeGT_Full(backend, curve, e) ==
  IF isGTIdentity(e)
    THEN [ thrown |-> NoError, bytes |-> IdentityBytes(12 * get_field_size(curve)) ]
  ELSE LET t == extractFp12Tower(backend, e)
       IN IF t.thrown # NoError THEN [ thrown |-> t.thrown, bytes |-> << >> ]
          ELSE [ thrown |-> NoError,
                 bytes |-> TowerBytes(backend, t.tower, 0, get_field_size(curve)) ]

deserializeGT_Full(backend, curve, old, in) ==
  LET field_size == get_field_size(curve) IN
  IF Len(in) < 12 * field_size THEN Failed("SerializationFailed", old)
  ELSE IF BitAnd(in[1], INFINITY_FLAG) # 0 THEN Decoded(GTIdentity)
  ELSE setGTFromFp12Tower(backend, old,
         [ i \in 1..12 |->
             bytes_to_field_element(backend,
               SubSeq(in, (i - 1) * field_size + 1, i * field_size)) ])

serializeGT_Cyclotomic(backend, curve, e) ==
  IF isGTIdentity(e)
    THEN [ thrown |-> NoError, bytes |-> IdentityBytes(8 * get_field_size(curve)) ]
  ELSE LET t == extractFp12Tower(backend, e)
       IN IF t.thrown # NoError THEN [ thrown |-> t.thrown, bytes |-> << >> ]
          ELSE [ thrown |-> NoError,
                 bytes |-> TowerBytes(backend, t.tower, 4, get_field_size(curve)) ]

\* the coefficients 4..11 are read and then dropped: the reconstruction of
\* 0..3 is a throw
deserializeGT_Cyclotomic(backend, curve, old, in) ==
  IF Len(in) < 8 * get_field_size(curve) THEN Failed("SerializationFailed", old)
  ELSE IF BitAnd(in[1], INFINITY_FLAG) # 0 THEN Decoded(GTIdentity)
  ELSE Failed("NotImplemented", old)

\* serializeGT(out, gt, mode, with_header = true)
serializeGT(backend, curve, e, mode) ==
  LET flags == IF mode = GT_CYCLOTOMIC_COMPRESSED THEN CYCLOTOMIC_FLAG ELSE 0
      header == [ Header_serialize(OpenABE_ELEMENT_GT, curve, IETF_PAIRING) EXCEPT ![9] = flags ]
      body == IF mode = GT_CYCLOTOMIC_COMPRESSED /\ supports_cyclotomic_compression(curve)
                THEN serializeGT_Cyclotomic(backend, curve, e)
                ELSE serializeGT_Full(backend, curve, e)
  IN [ body EXCEPT !.bytes = header \o @ ]

\* deserializeGT(gt, in, has_header = true)
deserializeGT(backend, curve, old, in) ==
  LET header == Header_deserialize(in)
      mode == IF header.ok /\ BitAnd(in[9], CYCLOTOMIC_FLAG) # 0
                THEN GT_CYCLOTOMIC_COMPRESSED ELSE GT_FULL_TOWER
      data == SubSeq(in, header.index + 1, Len(in))
  IN IF mode = GT_CYCLOTOMIC_COMPRESSED
       THEN deserializeGT_Cyclotomic(backend, curve, old, data)
       ELSE deserializeGT_Full(backend, curve, old, data)

\* the pairing curves a GT element's group may be on (bp_group_init)
GTCurves == G1Curves \cup { OpenABE_BLS12_P381_ID }

GtInit ==
  /\ build \in [comp : {"gt"}, backend : Backends, wasm : {FALSE}]
  /\ \E e \in GTElements, curve \in GTCurves, old \in GTElements :
       gt = [ e |-> e, curve |-> curve, old |-> old, op |-> "none", mode |-> GT_FULL_TOWER,
              thrown |-> NoError, wire |-> << >>, out |-> Decoded(old) ]
  /\ ct = Idle /\ pol = Idle /\ zp = Idle /\ g1 = Idle /\ g2 = Idle /\ rnd = Idle /\ pr = Idle /\ mx = Idle /\ dec = Idle /\ cs = Idle /\ tb = Idle /\ wb = Idle

\* serializeGT(wire, e, mode)
GtSerialize ==
  /\ gt.op = "none"
  /\ \E mode \in {GT_FULL_TOWER, GT_CYCLOTOMIC_COMPRESSED} :
       LET s == serializeGT(build.backend, gt.curve, gt.e, mode)
       IN gt' = [ gt EXCEPT !.op = "serialize", !.mode = mode, !.thrown = s.thrown,
                            !.wire = s.bytes ]
  /\ UNCHANGED <<build, ct, pol, zp, g1, g2, rnd, pr, mx, dec, cs, tb, wb>>

\* deserializeGT(target, wire)
GtDeserialize ==
  /\ gt.op = "serialize" /\ gt.thrown = NoError
  /\ gt' = [ gt EXCEPT !.op = "deserialize",
               !.out = deserializeGT(build.backend, gt.curve, gt.old, gt.wire) ]
  /\ UNCHANGED <<build, ct, pol, zp, g1, g2, rnd, pr, mx, dec, cs, tb, wb>>

GtNext ==
  \/ GtSerialize
  \/ GtDeserialize

SpecGT == GtInit /\ [][GtNext]_vars

\* C12: for every GT element, the identity included, and both modes (full
\* tower and cyclotomic compressed), serializeGT succeeds and deserializeGT of
\* its output yields an element equal to the one serialized.
C12_GTRoundTrip ==
  (build.comp = "gt" /\ gt.op # "none")
  => /\ gt.thrown = NoError
     /\ gt.op = "deserialize" => (gt.out.thrown = NoError /\ gt.out.point = gt.e)

\* C23: in every buffer serializeGT writes with a header, the CYCLOTOMIC flag
\* of the header is set if and only if the payload after the header is the
\* cyclotomic-compressed form of 8 field elements (and clear when the full
\* tower of 12 is written).
C23_CyclotomicFlagMatchesPayload ==
  (build.comp = "gt" /\ gt.op = "serialize" /\ gt.thrown = NoError)
  => LET flag == BitAnd(gt.wire[getHeaderSize], CYCLOTOMIC_FLAG) # 0
         payload == SubSeq(gt.wire, getHeaderSize + 1, Len(gt.wire))
     IN /\ flag <=> Len(payload) = 8 * get_field_size(gt.curve)
        /\ ~flag <=> Len(payload) = 12 * get_field_size(gt.curve)


(***************************************************************************)
(* Random elements.  A point of G1 or G2 is written k * base: the base it  *)
(* was computed from and the scalar it was multiplied by (both groups are  *)
(* cyclic of order Order, so equal points are equal pairs and have equal   *)
(* serializations).  The RNG handed to the library is the byte stream      *)
(* RandomBytes(s, _) of its state s; internal is the state of RELIC's own  *)
(* generator, which rand_seed replaces by the callback rng_trampoline.     *)
(***************************************************************************)
\* states RELIC's own generator starts from
MaxInternal == 1

\* ep_rand / ep2_rand: a scalar below the group order from the generator's
\* bytes, times the group generator
ep_rand(bytes) == [ base |-> "generator", k |-> BEValue(bytes) % Order ]

\* G1::setRandom(rng) with the RNG in state s: the point, and the state
\* RELIC's generator is left in
G1_setRandom(backend, wasm, s, internal) ==
  CASE backend = "openssl" -> [ point |-> [ base |-> "generator", k |-> 1 ], internal |-> internal ]
    [] backend = "mcl" ->
         LET random_scalar == setRandom(backend, wasm, setOrder(NewZP, getGroupOrder(backend)),
                                        s, getGroupOrder(backend))
         IN [ point |-> [ base |-> "OpenABE-G1-base", k |-> random_scalar.m_ZP ],
              internal |-> internal ]
    [] OTHER ->
         LET length == Len(BEBytes(Order)) IN
         IF wasm THEN [ point |-> ep_rand(RandomBytes(internal, length)),
                        internal |-> internal + 1 ]
                 ELSE [ point |-> ep_rand(RandomBytes(s, length)), internal |-> internal ]

\* G2::setRandom(rng)
G2_setRandom(backend, wasm, s, internal) ==
  CASE backend = "openssl" -> [ point |-> [ base |-> "generator", k |-> 1 ], internal |-> internal ]
    [] backend = "mcl" ->
         LET random_scalar == setRandom(backend, wasm, setOrder(NewZP, getGroupOrder(backend)),
                                        s, getGroupOrder(backend))
         IN [ point |-> [ base |-> "OpenABE-G2-base", k |-> random_scalar.m_ZP ],
              internal |-> internal ]
    [] OTHER ->
         LET length == Len(BEBytes(Order)) IN
         IF wasm THEN [ point |-> ep_rand(RandomBytes(internal, length)),
                        internal |-> internal + 1 ]
                 ELSE [ point |-> ep_rand(RandomBytes(s, length)), internal |-> internal ]

\* OpenABEPairing::randomZP / randomG1 / randomG2 on a non-null RNG in state s
randomElement(kind, backend, wasm, s, internal) ==
  CASE kind = "ZP" ->
         [ point |-> ZP_serialize(backend, setRandom(backend, wasm, NewZP, s, getGroupOrder(backend))),
           internal |-> internal ]
    [] kind = "G1" -> G1_setRandom(backend, wasm, s, internal)
    [] kind = "G2" -> G2_setRandom(backend, wasm, s, internal)

\* OpenABEPairing::randomZP / randomG1 / randomG2 on a null RNG: what the
\* caller gets.  randomZP's ASSERT_NOTNULL throws InvalidInput, and in a wasm
\* build returns the error code, which the ZP return type turns into a scalar;
\* randomG1 and randomG2 print and return G1(bpgroup) / G2(bpgroup), the point
\* at infinity.
randomElementNull(kind, wasm, code) ==
  CASE kind = "ZP" ->
         IF wasm THEN [ done |-> TRUE, kind |-> kind, thrown |-> NoError, returned |-> TRUE,
                        element |-> ZPuint(code) ]
                 ELSE [ done |-> TRUE, kind |-> kind, thrown |-> "InvalidInput",
                        returned |-> FALSE, element |-> NewZP ]
    [] OTHER -> [ done |-> TRUE, kind |-> kind, thrown |-> NoError, returned |-> TRUE,
                  element |-> [ base |-> "infinity", k |-> 0 ] ]

NoNullCall ==
  [ done |-> FALSE, kind |-> "none", thrown |-> NoError, returned |-> FALSE, element |-> NewZP ]

RndInit ==
  /\ build \in [comp : {"rnd"}, backend : Backends, wasm : BOOLEAN]
  /\ \E s \in 0..MaxSeed, internal \in 0..MaxInternal :
       rnd = [ seed |-> s, internal |-> internal, kind |-> "none", calls |-> 0,
               a |-> << >>, b |-> << >>, null |-> NoNullCall ]
  /\ ct = Idle /\ pol = Idle /\ zp = Idle /\ g1 = Idle /\ g2 = Idle /\ gt = Idle /\ pr = Idle /\ mx = Idle /\ dec = Idle /\ cs = Idle /\ tb = Idle /\ wb = Idle

\* a = pairing->randomX(rng1), rng1 in state seed
RndFirst ==
  /\ rnd.calls = 0
  /\ \E kind \in {"ZP", "G1", "G2"} :
       LET r == randomElement(kind, build.backend, build.wasm, rnd.seed, rnd.internal)
       IN rnd' = [ rnd EXCEPT !.kind = kind, !.calls = 1, !.a = r.point,
                              !.internal = r.internal ]
  /\ UNCHANGED <<build, ct, pol, zp, g1, g2, gt, pr, mx, dec, cs, tb, wb>>

\* b = pairing->randomX(rng2), rng2 in the state rng1 was in
RndSecond ==
  /\ rnd.calls = 1
  /\ LET r == randomElement(rnd.kind, build.backend, build.wasm, rnd.seed, rnd.internal)
     IN rnd' = [ rnd EXCEPT !.calls = 2, !.b = r.point, !.internal = r.internal ]
  /\ UNCHANGED <<build, ct, pol, zp, g1, g2, gt, pr, mx, dec, cs, tb, wb>>

\* pairing->randomX(NULL)
RndNull ==
  /\ rnd.calls = 0 /\ ~rnd.null.done
  /\ \E kind \in {"ZP", "G1", "G2"}, code \in 1..MaxErrorCode :
       rnd' = [ rnd EXCEPT !.null = randomElementNull(kind, build.wasm, code) ]
  /\ UNCHANGED <<build, ct, pol, zp, g1, g2, gt, pr, mx, dec, cs, tb, wb>>

RndNext ==
  \/ RndFirst
  \/ RndSecond
  \/ RndNull

SpecRnd == RndInit /\ [][RndNext]_vars

\* C13: on every backend, randomZP, randomG1 and randomG2 called with two
\* RNGs in the same state return the same element (byte-identical when
\* serialized): nothing but the supplied RNG's bytes decides the result.
C13_RandomIsFunctionOfRng ==
  (build.comp = "rnd" /\ rnd.calls = 2) => rnd.a = rnd.b


(***************************************************************************)
(* Pairings.  G1, G2 and GT are cyclic of order Order: a G1 element is     *)
(* written by the scalar a of a * g1, a G2 element by the b of b * g2, a   *)
(* GT element by the exponent c of e(g1, g2)^c.  GT multiplication adds    *)
(* exponents, the identity is exponent 0, and the pairing library maps     *)
(* (a, b) to a * b.                                                        *)
(***************************************************************************)
\* longest vector handed to multi_pairing
MaxPairs == 2

gt_unity == 0

\* bp_map_op: pp_map_oatep_k12 / mclBn_pairing / GT_ELEM_pairing
bp_map_op(a, b) == (a * b) % Order

\* fp12_mul / mclBnGT_mul
gt_mul(c, d) == (c + d) % Order

\* OpenABEPairing::pairing
pairing(a, b) ==
  LET result == bp_map_op(a, b)
  IN IF result = gt_unity THEN gt_unity ELSE result

\* multi_bp_map_op(group, gt, g1, g2), gt holding held: the error thrown and
\* what gt holds afterwards
RECURSIVE multi_bp_map_loop(_, _, _, _)
multi_bp_map_loop(acc, xs, ys, i) ==
  IF i > Len(xs) THEN acc
  ELSE LET temp == bp_map_op(xs[i], ys[i])
       IN multi_bp_map_loop(IF i = 1 THEN temp ELSE gt_mul(acc, temp), xs, ys, i + 1)

multi_bp_map_op(backend, held, xs, ys) ==
  IF Len(xs) # Len(ys) THEN [ thrown |-> "InvalidLength", gt |-> held ]
  ELSE CASE backend = "openssl" ->
              \* GT_ELEMs_pairing: the library's product of the n pairings
              [ thrown |-> NoError, gt |-> multi_bp_map_loop(gt_unity, xs, ys, 1) ]
         [] backend = "mcl" ->
              [ thrown |-> NoError,
                gt |-> IF Len(xs) = 0 THEN gt_unity ELSE multi_bp_map_loop(held, xs, ys, 1) ]
         [] OTHER ->
              [ thrown |-> NoError, gt |-> multi_bp_map_loop(held, xs, ys, 1) ]

\* OpenABEPairing::multi_pairing
multi_pairing(backend, held, xs, ys) ==
  LET r == multi_bp_map_op(backend, held, xs, ys)
  IN IF r.thrown = NoError /\ r.gt = gt_unity THEN [ r EXCEPT !.gt = gt_unity ] ELSE r

\* the product over all i of pairing(xs[i], ys[i])
RECURSIVE ProductOfPairings(_, _)
ProductOfPairings(xs, ys) ==
  IF Len(xs) = 0 THEN gt_unity
  ELSE gt_mul(pairing(xs[1], ys[1]), ProductOfPairings(Tail(xs), Tail(ys)))

\* vectors of scalars from S, of length 0..MaxPairs
VectorsOf(S) == UNION { [ 1..n -> S ] : n \in 0..MaxPairs }

PrInit ==
  /\ build \in [comp : {"pairing"}, backend : Backends, wasm : {FALSE}]
  /\ \E held \in {gt_unity, 5}, xs \in VectorsOf({0, 3, Order - 1}), ys \in VectorsOf({1, 2}) :
       pr = [ xs |-> xs, ys |-> ys, gt |-> held, held |-> held, op |-> "none",
              thrown |-> NoError, single |-> gt_unity ]
  /\ ct = Idle /\ pol = Idle /\ zp = Idle /\ g1 = Idle /\ g2 = Idle /\ gt = Idle /\ rnd = Idle /\ mx = Idle /\ dec = Idle /\ cs = Idle /\ tb = Idle /\ wb = Idle

\* pairing.multi_pairing(gt, xs, ys)
PrMultiPairing ==
  /\ pr.op = "none"
  /\ LET r == multi_pairing(build.backend, pr.gt, pr.xs, pr.ys)
     IN pr' = [ pr EXCEPT !.op = "multi_pairing", !.gt = r.gt, !.thrown = r.thrown ]
  /\ UNCHANGED <<build, ct, pol, zp, g1, g2, gt, rnd, mx, dec, cs, tb, wb>>

\* single = pairing.pairing(xs[1], ys[1])
PrPairing ==
  /\ pr.op = "none" /\ Len(pr.xs) > 0 /\ Len(pr.ys) > 0
  /\ pr' = [ pr EXCEPT !.op = "pairing", !.single = pairing(pr.xs[1], pr.ys[1]) ]
  /\ UNCHANGED <<build, ct, pol, zp, g1, g2, gt, rnd, mx, dec, cs, tb, wb>>

PrNext ==
  \/ PrMultiPairing
  \/ PrPairing

SpecPairing == PrInit /\ [][PrNext]_vars

\* C14: for vectors xs and ys of equal length, multi_pairing(xs, ys) leaves in
\* its result the product over all i of pairing(xs[i], ys[i]).
C14_MultiPairingIsProduct ==
  (build.comp = "pairing" /\ pr.op = "multi_pairing" /\ Len(pr.xs) = Len(pr.ys))
  => (pr.thrown = NoError /\ pr.gt = ProductOfPairings(pr.xs, pr.ys))

\* C15: multi_pairing on two empty vectors leaves the GT identity in its
\* result, whatever the result held before the call.
C15_EmptyMultiPairingIsIdentity ==
  (build.comp = "pairing" /\ pr.op = "multi_pairing" /\ Len(pr.xs) = 0 /\ Len(pr.ys) = 0)
  => (pr.thrown = NoError /\ pr.gt = gt_unity)


(***************************************************************************)
(* Elements of two BPGroup contexts.  A context is a BPGroup of one curve; *)
(* a G1 element holds its context (bgroup) and the scalar k of k * g1, a   *)
(* ZP element holds the order of the context it was created against.      *)
(***************************************************************************)
\* the group order of the second context's curve
OtherOrder == 251

Contexts == {OpenABE_BN_P254_ID, OpenABE_BN_P382_ID}

\* bp_get_order of a context
bp_get_order(backend, bgroup) ==
  IF backend = "mcl" THEN GroupOrder(backend)
  ELSE IF bgroup = OpenABE_BN_P254_ID THEN Order ELSE OtherOrder

\* g1_add_op(group, z, x, y): the point left in z; any is what the curve
\* arithmetic makes of two points that are not on one curve
g1_add_op(backend, x, y, any) ==
  CASE x.bgroup = y.bgroup -> [ x EXCEPT !.k = (x.k + y.k) % Order ]
    [] backend = "openssl" -> x
    [] backend = "mcl" -> [ x EXCEPT !.k = (x.k + y.k) % Order ]
    [] OTHER -> [ x EXCEPT !.k = any ]

\* operator*(const G1&, const G1&)
operator_mulG1(backend, x, y, any) == Returned(g1_add_op(backend, x, y, any))

MxInit ==
  /\ build \in [comp : {"mix"}, backend : Backends, wasm : {FALSE}]
  /\ \E xg \in Contexts, yg \in Contexts, a \in {0, 1, 250}, b \in {1, 2} :
       mx = [ xg |-> xg, yg |-> yg, a |-> a, b |-> b, op |-> "none", out |-> Nothing ]
  /\ ct = Idle /\ pol = Idle /\ zp = Idle /\ g1 = Idle /\ g2 = Idle /\ gt = Idle /\ dec = Idle /\ cs = Idle /\ tb = Idle /\ wb = Idle
  /\ rnd = Idle /\ pr = Idle /\ dec = Idle /\ cs = Idle /\ tb = Idle /\ wb = Idle

\* G1 x(groupX), y(groupY); out = x * y
MxMulG1 ==
  /\ mx.op = "none"
  /\ \E any \in {0, 1, Order - 1} :
       mx' = [ mx EXCEPT !.op = "G1*G1",
                 !.out = operator_mulG1(build.backend, [ bgroup |-> mx.xg, k |-> mx.a ],
                                        [ bgroup |-> mx.yg, k |-> mx.b ], any) ]
  /\ UNCHANGED <<build, ct, pol, zp, g1, g2, gt, rnd, pr, dec, cs, tb, wb>>

\* ZP x(a) of groupX's order, y(b) of groupY's order; out = x + y
MxAddZP ==
  /\ mx.op = "none"
  /\ mx' = [ mx EXCEPT !.op = "ZP+ZP",
               !.out = operator_plus(build.backend,
                         setOrder(ZPuint(mx.a), bp_get_order(build.backend, mx.xg)),
                         setOrder(ZPuint(mx.b), bp_get_order(build.backend, mx.yg))) ]
  /\ UNCHANGED <<build, ct, pol, zp, g1, g2, gt, rnd, pr, dec, cs, tb, wb>>

MxNext ==
  \/ MxMulG1
  \/ MxAddZP

SpecMix == MxInit /\ [][MxNext]_vars

\* C16: an arithmetic operation on two elements created against different
\* contexts fails with InvalidInput and returns no element.
C16_MixedContextsFail ==
  (build.comp = "mix" /\ mx.op # "none" /\ mx.xg # mx.yg)
  => (mx.out.thrown = "InvalidInput" /\ ~mx.out.returned)


(***************************************************************************)
(* Decoding of buffers a caller did not write itself: ZP::deserialize and  *)
(* G1::deserialize on a buffer that is well formed, has another element's  *)
(* tag, or has a length field that does not match its size.  Both return   *)
(* void: what the caller gets is the error thrown, if any, and the element *)
(* as the call left it.                                                    *)
(***************************************************************************)
\* G1::deserialize on a non-empty input, the element holding old
G1_deserialize(curve, old, input) ==
  IF input[1] = OpenABE_ELEMENT_G1
    THEN g1_convert_to_point(curve, old, smartUnpack(input, 1).buf)
    ELSE Decoded(old)

\* buffers handed to ZP::deserialize, with what is wrong with them
ZPBuffers ==
  { [ fault |-> "none", bytes |-> << OpenABE_ELEMENT_ZP, 0, 1, 5 >> ],
    [ fault |-> "tag", bytes |-> << OpenABE_ELEMENT_G1, 0, 1, 5 >> ],
    [ fault |-> "length", bytes |-> << OpenABE_ELEMENT_ZP, 0, 2, 5 >> ],
    [ fault |-> "length", bytes |-> << OpenABE_ELEMENT_ZP, 0, 1, 5, 6 >> ] }

\* buffers handed to G1::deserialize
G1Buffers ==
  { [ fault |-> "none", bytes |-> << OpenABE_ELEMENT_G1, 0, 0, 0, 1, 0 >> ],
    [ fault |-> "tag", bytes |-> << OpenABE_ELEMENT_ZP, 0, 0, 0, 1, 0 >> ],
    [ fault |-> "length", bytes |-> << OpenABE_ELEMENT_G1, 0, 0, 0, 9, 0 >> ],
    [ fault |-> "length", bytes |-> << OpenABE_ELEMENT_G1, 0, 0 >> ] }

DecInit ==
  /\ build \in [comp : {"decode"}, backend : Backends, wasm : {FALSE}]
  /\ \/ \E old \in SampleZP(build.backend), b \in ZPBuffers :
          dec = [ kind |-> "ZP", curve |-> OpenABE_BN_P254_ID, old |-> old, input |-> b,
                  op |-> "none", out |-> Decoded(old) ]
     \/ \E old \in {Infinity, Affine(1, 2)}, b \in G1Buffers, curve \in G1Curves :
          /\ b.fault = "none" => build.backend # "mcl"
          /\ dec = [ kind |-> "G1", curve |-> curve, old |-> old, input |-> b,
                     op |-> "none", out |-> Decoded(old) ]
  /\ ct = Idle /\ pol = Idle /\ zp = Idle /\ g1 = Idle /\ g2 = Idle /\ gt = Idle /\ cs = Idle /\ tb = Idle /\ wb = Idle
  /\ rnd = Idle /\ pr = Idle /\ mx = Idle /\ cs = Idle /\ tb = Idle /\ wb = Idle

\* element.deserialize(input) on a ZP
DecZP ==
  /\ dec.op = "none" /\ dec.kind = "ZP"
  /\ dec' = [ dec EXCEPT !.op = "deserialize",
                !.out = Decoded(ZP_deserialize(build.backend, dec.old, dec.input.bytes)) ]
  /\ UNCHANGED <<build, ct, pol, zp, g1, g2, gt, rnd, pr, mx, cs, tb, wb>>

\* element.deserialize(input) on a G1
DecG1 ==
  /\ dec.op = "none" /\ dec.kind = "G1"
  /\ dec' = [ dec EXCEPT !.op = "deserialize",
                !.out = G1_deserialize(dec.curve, dec.old, dec.input.bytes) ]
  /\ UNCHANGED <<build, ct, pol, zp, g1, g2, gt, rnd, pr, mx, cs, tb, wb>>

DecNext ==
  \/ DecZP
  \/ DecG1

SpecDecode == DecInit /\ [][DecNext]_vars

\* C17: deserializing an Fr or G1 element from a buffer with the wrong tag or
\* an inconsistent length field reports an error to the caller: the call does
\* not come back as if it had succeeded, the element still at its old value.
C17_MalformedBufferReported ==
  (build.comp = "decode" /\ dec.op = "deserialize" /\ dec.input.fault # "none")
  => dec.out.thrown # NoError


(***************************************************************************)
(* The process-wide curve selector.  RELIC keeps the curve in use in its   *)
(* context (ctx->ep_id, set by ep_param_set); MCL is set to one curve by   *)
(* mclBn_init in zml_init; OpenSSL computes with the BP_GROUP it is        *)
(* handed.  Two threads of a hosting layer each hold a BPGroup of their    *)
(* own curve and run group operations on it; a group operation is a call   *)
(* into the library that starts, computes, and returns.                    *)
(***************************************************************************)
\* group operations per thread
MaxOps == 2

Threads == {1, 2}

\* the curve of the BPGroup thread t works on
CurveOf(t) == IF t = 1 THEN OpenABE_BN_P254_ID ELSE OpenABE_BN_P382_ID

\* no curve selected yet (core_init)
EP_NONE == 0

\* zml_init: the selector after library initialisation
zml_init(backend) == IF backend = "mcl" THEN OpenABE_BN_P254_ID ELSE EP_NONE

\* bp_group_init(&group, id): the selector afterwards
bp_group_init(backend, ep_id, id) == IF backend = "relic" THEN id ELSE ep_id

\* bp_ensure_curve_params(id): the selector afterwards
bp_ensure_curve_params(backend, ep_id, id) == IF backend = "relic" THEN id ELSE ep_id

\* the curve the library computes with, in an operation on a group of curve id
CurveInUse(backend, ep_id, id) == IF backend = "openssl" THEN id ELSE ep_id

CsInit ==
  /\ build \in [comp : {"selector"}, backend : Backends, wasm : {FALSE}]
  /\ cs = [ ep_id |-> zml_init(build.backend),
            group |-> [ t \in Threads |-> FALSE ],
            pc |-> [ t \in Threads |-> "idle" ],
            ran |-> [ t \in Threads |-> EP_NONE ],
            ops |-> [ t \in Threads |-> 0 ] ]
  /\ ct = Idle /\ pol = Idle /\ zp = Idle /\ g1 = Idle /\ g2 = Idle /\ gt = Idle /\ tb = Idle /\ wb = Idle
  /\ rnd = Idle /\ pr = Idle /\ mx = Idle /\ dec = Idle /\ tb = Idle /\ wb = Idle

\* thread t: BPGroup::BPGroup(id)
CsNewGroup(t) ==
  /\ ~cs.group[t]
  /\ cs' = [ cs EXCEPT !.group[t] = TRUE,
                       !.ep_id = bp_group_init(build.backend, cs.ep_id, CurveOf(t)) ]
  /\ UNCHANGED <<build, ct, pol, zp, g1, g2, gt, rnd, pr, mx, dec, tb, wb>>

\* thread t enters g1_convert_to_point(group, s, p, curve_id)
CsStartConvert(t) ==
  /\ cs.group[t] /\ cs.pc[t] = "idle" /\ cs.ops[t] < MaxOps
  /\ cs' = [ cs EXCEPT !.pc[t] = "compute",
                       !.ep_id = bp_ensure_curve_params(build.backend, cs.ep_id, CurveOf(t)) ]
  /\ UNCHANGED <<build, ct, pol, zp, g1, g2, gt, rnd, pr, mx, dec, tb, wb>>

\* thread t enters g1_add_op(group, z, x, y)
CsStartAdd(t) ==
  /\ cs.group[t] /\ cs.pc[t] = "idle" /\ cs.ops[t] < MaxOps
  /\ cs' = [ cs EXCEPT !.pc[t] = "compute" ]
  /\ UNCHANGED <<build, ct, pol, zp, g1, g2, gt, rnd, pr, mx, dec, tb, wb>>

\* thread t: the library call of the operation (g1_elem_in, ep_add_projc)
\* runs with the curve in use and the operation returns
CsCompute(t) ==
  /\ cs.pc[t] = "compute"
  /\ cs' = [ cs EXCEPT !.pc[t] = "idle", !.ops[t] = @ + 1,
                       !.ran[t] = CurveInUse(build.backend, cs.ep_id, CurveOf(t)) ]
  /\ UNCHANGED <<build, ct, pol, zp, g1, g2, gt, rnd, pr, mx, dec, tb, wb>>

CsNext ==
  \E t \in Threads :
    \/ CsNewGroup(t)
    \/ CsStartConvert(t)
    \/ CsStartAdd(t)
    \/ CsCompute(t)

SpecSelector == CsInit /\ [][CsNext]_vars

\* C18: with two threads running group operations on groups of different
\* curves, every operation computes, from its start to its end, with the
\* curve selector on its own group's curve.
C18_OperationOnOwnCurve ==
  build.comp = "selector"
  => \A t \in Threads :
       /\ cs.pc[t] = "compute" => CurveInUse(build.backend, cs.ep_id, CurveOf(t)) = CurveOf(t)
       /\ cs.ops[t] > 0 => cs.ran[t] = CurveOf(t)


(***************************************************************************)
(* Claims about the exported header                                        *)
(***************************************************************************)
\* C19: the header section exportToBytes writes has exactly 3 + UID_LEN = 19
\* bytes, for every container and however its UID was set.
C19_ExportedHeaderIs19Bytes ==
  (build.comp = "ct" /\ ct.from = "export")
  => Len(smartUnpack(ct.wire, 0).buf) = 3 + UID_LEN

\* C20: once the caller has supplied a UID of at least UID_LEN bytes, at
\* construction or through setHeader with a UID, the container keeps it through
\* every later setHeader with an RNG, and the exported header carries it.
C20_SuppliedUidKept ==
  (build.comp = "ct" /\ Len(ct.supplied) >= UID_LEN)
  => /\ ct.src.uid = ct.supplied
     /\ ct.from = "export"
          => LET hdr == smartUnpack(ct.wire, 0).buf
             IN getSubset(hdr, 3, Len(hdr) - 3) = ct.supplied


(***************************************************************************)
(* The serializer's tables and its field element conversion                *)
(* (zstandard_serialization.cpp): selectFormat and get_field_size on every *)
(* curve id of zconstants.h, and field_element_to_bytes followed by        *)
(* bytes_to_field_element in either byte order.                            *)
(***************************************************************************)
OpenABE_BN_P158_ID == 97
OpenABE_KSS_508_ID == 60
OpenABE_BN_P446_ID == 229
OpenABE_BLS12_P377_ID == 161
OpenABE_BLS12_P446_ID == 163
OpenABE_BLS12_P455_ID == 164
OpenABE_BLS12_P638_ID == 165

\* the curves of the BLS12 family, the NIST curves, and every id of the tables
BLS12Curves ==
  { OpenABE_BLS12_P377_ID, OpenABE_BLS12_P381_ID, OpenABE_BLS12_P446_ID,
    OpenABE_BLS12_P455_ID, OpenABE_BLS12_P638_ID }
NISTCurves == { OpenABE_NIST_P256_ID, OpenABE_NIST_P384_ID, OpenABE_NIST_P521_ID }
TableCurves ==
  CurveIDs \cup BLS12Curves
    \cup { OpenABE_NONE_ID, OpenABE_BN_P158_ID, OpenABE_KSS_508_ID, OpenABE_BN_P446_ID }

\* field_element_to_bytes(elem, out, field_size, big_endian): for little-endian
\* the bytes zml_bignum_toBin wrote go to the front of the zeroed buffer
field_element_to_bytes_endian(backend, elem, field_size, big_endian) ==
  IF big_endian THEN field_element_to_bytes(backend, elem, field_size)
  ELSE LET bin == zml_bignum_toBin(backend, elem)
       IN [ i \in 1..field_size |-> IF i <= Len(bin) THEN bin[i] ELSE 0 ]

\* bytes_to_field_element(elem, in, 0, big_endian): for little-endian the
\* bytes are reversed before zml_bignum_fromBin reads them
bytes_to_field_element_endian(backend, in, big_endian) ==
  IF big_endian THEN bytes_to_field_element(backend, in)
  ELSE zml_bignum_fromBin(backend, [ i \in 1..Len(in) |-> in[Len(in) + 1 - i] ])

\* field elements of one and of two bytes
FieldElements == { 0, 1, 9, 255, 256, 257, 282 }

TbInit ==
  /\ build \in [comp : {"tables"}, backend : Backends, wasm : {FALSE}]
  /\ \E curve \in TableCurves, e \in FieldElements :
       tb = [ curve |-> curve, e |-> e, op |-> "none", format |-> OPENABE_LEGACY,
              size |-> 0, zcash |-> << >>, big_endian |-> TRUE, bytes |-> << >>, back |-> 0 ]
  /\ ct = Idle /\ pol = Idle /\ zp = Idle /\ g1 = Idle /\ g2 = Idle /\ gt = Idle /\ rnd = Idle /\ pr = Idle /\ mx = Idle /\ dec = Idle /\ cs = Idle /\ wb = Idle

\* selectFormat(curve)
TbSelectFormat ==
  /\ tb.op = "none"
  /\ tb' = [ tb EXCEPT !.op = "format", !.format = selectFormat(tb.curve) ]
  /\ UNCHANGED <<build, ct, pol, zp, g1, g2, gt, rnd, pr, mx, dec, cs, wb>>

\* get_field_size(curve), and serializeG1_ZCash of a point of the curve, compressed
TbFieldSize ==
  /\ tb.op = "none"
  /\ tb' = [ tb EXCEPT !.op = "size", !.size = get_field_size(tb.curve),
               !.zcash = serializeG1_ZCash(build.backend, tb.curve, Affine(1, 2), TRUE) ]
  /\ UNCHANGED <<build, ct, pol, zp, g1, g2, gt, rnd, pr, mx, dec, cs, wb>>

\* field_element_to_bytes(e, bytes, get_field_size(curve), big_endian)
TbToBytes ==
  /\ tb.op = "none"
  /\ \E big_endian \in BOOLEAN :
       tb' = [ tb EXCEPT !.op = "to_bytes", !.big_endian = big_endian,
                 !.bytes = field_element_to_bytes_endian(build.backend, tb.e,
                             get_field_size(tb.curve), big_endian) ]
  /\ UNCHANGED <<build, ct, pol, zp, g1, g2, gt, rnd, pr, mx, dec, cs, wb>>

\* bytes_to_field_element(back, bytes, 0, big_endian) with the same flag
TbFromBytes ==
  /\ tb.op = "to_bytes"
  /\ tb' = [ tb EXCEPT !.op = "from_bytes",
               !.back = bytes_to_field_element_endian(build.backend, tb.bytes, tb.big_endian) ]
  /\ UNCHANGED <<build, ct, pol, zp, g1, g2, gt, rnd, pr, mx, dec, cs, wb>>

TbNext ==
  \/ TbSelectFormat
  \/ TbFieldSize
  \/ TbToBytes
  \/ TbFromBytes

SpecTables == TbInit /\ [][TbNext]_vars

\* C21: automatic format selection returns ZCASH for every curve of the BLS12
\* family (BLS12-381 included), ETHEREUM for BN254 and BN256, SEC1 for the
\* NIST curves, and LEGACY for every other curve id.
C21_AutoFormatByCurve ==
  (build.comp = "tables" /\ tb.op = "format")
  => tb.format =
       (CASE tb.curve \in BLS12Curves -> ZCASH_BLS12
          [] tb.curve \in {OpenABE_BN_P254_ID, OpenABE_BN_P256_ID} -> ETHEREUM_BN254
          [] tb.curve \in NISTCurves -> SEC1_STANDARD
          [] OTHER -> OPENABE_LEGACY)

\* C22: get_field_size returns 32 for BN254, BN256 and NIST P-256, 48 for
\* BN382, BLS12-381 and NIST P-384, 80 for BN638 and 66 for NIST P-521, and a
\* ZCash-compressed G1 element on BLS12-381 has exactly 48 bytes.
C22_FieldSizeTable ==
  (build.comp = "tables" /\ tb.op = "size")
  => /\ tb.curve \in {OpenABE_BN_P254_ID, OpenABE_BN_P256_ID, OpenABE_NIST_P256_ID}
          => tb.size = 32
     /\ tb.curve \in {OpenABE_BN_P382_ID, OpenABE_BLS12_P381_ID, OpenABE_NIST_P384_ID}
          => tb.size = 48
     /\ tb.curve = OpenABE_BN_P638_ID => tb.size = 80
     /\ tb.curve = OpenABE_NIST_P521_ID => tb.size = 66
     /\ tb.curve = OpenABE_BLS12_P381_ID => Len(tb.zcash) = 48

\* C24: for every field element e that fits in field_size bytes and for both
\* byte orders, bytes_to_field_element with the same byte-order flag applied
\* to the output of field_element_to_bytes yields e.
C24_FieldElementRoundTrip ==
  (build.comp = "tables" /\ tb.op = "from_bytes") => tb.back = tb.e


\* C26: the comparison operators on scalars (<, <=, >, >=, ==, !=) agree on
\* every backend with the numeric order of the values in [0, r): each returns
\* to its caller what the numbers give, so that they form a total order, and 9
\* compares less than 10.
C26_ComparisonsAgreeWithNumericOrder ==
  (/\ build.comp = "zp" /\ zp.op = "compare"
   /\ zp.x.m_ZP \in 0..(Order - 1) /\ zp.y.m_ZP \in 0..(Order - 1))
  => /\ zp.cmp.lt = Compared(zp.x.m_ZP < zp.y.m_ZP)
     /\ zp.cmp.le = Compared(zp.x.m_ZP <= zp.y.m_ZP)
     /\ zp.cmp.gt = Compared(zp.x.m_ZP > zp.y.m_ZP)
     /\ zp.cmp.ge = Compared(zp.x.m_ZP >= zp.y.m_ZP)
     /\ zp.cmp.eq = Compared(zp.x.m_ZP = zp.y.m_ZP)
     /\ zp.cmp.ne = Compared(zp.x.m_ZP # zp.y.m_ZP)


(***************************************************************************)
(* The WebAssembly binding openabe_encrypt (wasm-bindings.cpp) over        *)
(* OpenABECryptoContext::encrypt.  The context's encrypt is declared       *)
(* outside the sources at hand: it returns a bool and may throw; what it   *)
(* does is one of three outcomes.  With the exception stubs of the         *)
(* WASI-SDK build (wasm_exception_stubs.cpp) a throw aborts the program.   *)
(***************************************************************************)
MaxCtLen == 2     \* bytes of a ciphertext string

\* OpenABECryptoContext::encrypt(policy, pt, ct): it succeeds and ct holds the
\* ciphertext, it throws, or it returns false with ct as far as it was written
EncryptOutcomes == { "ok", "throws", "fails" }

\* what a binding hands to its caller, unless the program was aborted
WasmReturn(v, len) == [ returned |-> TRUE, value |-> v, ct_len |-> len ]
WasmAbort(len) == [ returned |-> FALSE, value |-> 0, ct_len |-> len ]

\* openabe_encrypt(ctx, policy, plaintext, pt_len, ciphertext_out, ct_len):
\* args tells which pointers are non-null and *ct_len; outcome and n are what
\* context->encrypt does and the size of ct after it
openabe_encrypt(wasm, args, outcome, n) ==
  IF ~args.ctx \/ ~args.policy \/ ~args.plaintext THEN WasmReturn(-1, args.ct_len)
  ELSE IF outcome = "throws"
    THEN IF wasm THEN WasmAbort(args.ct_len) ELSE WasmReturn(-1, args.ct_len)
  ELSE IF args.ciphertext_out
    THEN IF args.ct_len >= n THEN WasmReturn(n, n) ELSE WasmReturn(-2, n)
  ELSE WasmReturn(n, args.ct_len)

WbInit ==
  /\ build \in [comp : {"wasm"}, backend : {"relic"}, wasm : BOOLEAN]
  /\ \E args \in [ ctx : BOOLEAN, policy : BOOLEAN, plaintext : BOOLEAN,
                   ciphertext_out : BOOLEAN, ct_len : 0..MaxCtLen ] :
       wb = [ args |-> args, op |-> "none", called |-> FALSE, outcome |-> "ok", n |-> 0,
              out |-> WasmReturn(0, 0) ]
  /\ ct = Idle /\ pol = Idle /\ zp = Idle /\ g1 = Idle /\ g2 = Idle /\ gt = Idle /\ rnd = Idle /\ pr = Idle /\ mx = Idle /\ dec = Idle /\ cs = Idle /\ tb = Idle

\* openabe_encrypt returns before it reaches context->encrypt
WbEncryptNoCall ==
  /\ wb.op = "none"
  /\ ~wb.args.ctx \/ ~wb.args.policy \/ ~wb.args.plaintext
  /\ wb' = [ wb EXCEPT !.op = "encrypt",
               !.out = openabe_encrypt(build.wasm, wb.args, "ok", 0) ]
  /\ UNCHANGED <<build, ct, pol, zp, g1, g2, gt, rnd, pr, mx, dec, cs, tb>>

\* openabe_encrypt calls context->encrypt, which succeeds with a ciphertext of
\* n >= 1 bytes, throws, or returns false with n bytes in ct
WbEncrypt ==
  /\ wb.op = "none"
  /\ wb.args.ctx /\ wb.args.policy /\ wb.args.plaintext
  /\ \E outcome \in EncryptOutcomes, n \in 0..MaxCtLen :
       /\ outcome = "ok" => n >= 1
       /\ outcome = "throws" => n = 0
       /\ wb' = [ wb EXCEPT !.op = "encrypt", !.called = TRUE, !.outcome = outcome, !.n = n,
                    !.out = openabe_encrypt(build.wasm, wb.args, outcome, n) ]
  /\ UNCHANGED <<build, ct, pol, zp, g1, g2, gt, rnd, pr, mx, dec, cs, tb>>

WbNext ==
  \/ WbEncryptNoCall
  \/ WbEncrypt

SpecWasm == WbInit /\ [][WbNext]_vars

\* C27: openabe_encrypt returns -1 whenever the underlying encryption does not
\* succeed, whether it throws or reports failure through its return value, and
\* it returns a non-negative length only when a ciphertext was produced.
C27_EncryptFailureReturnsMinusOne ==
  (build.comp = "wasm" /\ wb.op = "encrypt")
  => /\ (wb.called /\ wb.outcome # "ok") => (wb.out.returned /\ wb.out.value = -1)
     /\ (wb.out.returned /\ wb.out.value >= 0) => (wb.called /\ wb.outcome = "ok")


\* C28: when loadFromBytes rejects its input (input shorter than 19 bytes,
\* header section not 19 bytes long, library version too new, or empty body),
\* the container's library version, curve id, scheme id, UID, group handle and
\* body are all the same as before the call.
C28_RejectedLoadChangesNothing ==
  (build.comp = "ct" /\ ct.load.n >= 1 /\ ct.load.diag # "loaded")
  => /\ ct.dst.libraryVersion = ct.load.before.libraryVersion
     /\ ct.dst.curveID = ct.load.before.curveID
     /\ ct.dst.algorithmID = ct.load.before.algorithmID
     /\ ct.dst.uid = ct.load.before.uid
     /\ ct.dst.group = ct.load.before.group
     /\ ct.dst.body = ct.load.before.body


\* C30: randomZP, randomG1 and randomG2 called with a null RNG all fail with
\* InvalidInput; none of them returns an element (such as the identity) to the
\* caller.
C30_NullRngFails ==
  (build.comp = "rnd" /\ rnd.null.done)
  => (rnd.null.thrown = "InvalidInput" /\ ~rnd.null.returned)

=============================================================================
